---- MODULE Spec2Model ----
(***************************************************************************)
(* A model of LLMCommit (src/LLMCommit.py): the context builder with its   *)
(* secret redactor, the retry/backoff wrapper, the three provider clients, *)
(* the ordered provider pipeline of main(), the message normalizer and the *)
(* final git commit dispatch.                                              *)
(*                                                                         *)
(* Text (a Python str) is a sequence of one-character strings, so that     *)
(* strip, slicing, regular-expression matching and length are computed on  *)
(* characters as the code computes them.  A command-line token is a text,  *)
(* an argument list a sequence of texts.                                   *)
(***************************************************************************)
EXTENDS Integers, Sequences, FiniteSets, TLC

\* ------------------------------------------------------------------ text

Upper == {"A","B","C","D","E","F","G","H","I","J","K","L","M",
          "N","O","P","Q","R","S","T","U","V","W","X","Y","Z"}

Lower == {"a","b","c","d","e","f","g","h","i","j","k","l","m",
          "n","o","p","q","r","s","t","u","v","w","x","y","z"}

Digit == {"0","1","2","3","4","5","6","7","8","9"}

\* \w of the re module on the characters used here
WordChar == Upper \cup Lower \cup Digit \cup {"_"}

\* str.strip() and \s on the characters used here
WS == {" ", "\n", "\t", "\r"}

UpperSeq == <<"A","B","C","D","E","F","G","H","I","J","K","L","M","N","O","P","Q","R","S","T","U","V","W","X","Y","Z">>

LowerSeq == <<"a","b","c","d","e","f","g","h","i","j","k","l","m","n","o","p","q","r","s","t","u","v","w","x","y","z">>

\* str.lower() of one character ((?i) matching)
ToLower(c) ==
    IF c \in Upper
    THEN LowerSeq[CHOOSE k \in 1..26 : UpperSeq[k] = c]
    ELSE c

MinOf(S) == CHOOSE x \in S : \A y \in S : x <= y

MaxOf(S) == CHOOSE x \in S : \A y \in S : x >= y

\* s[a-1:b-1] of Python, 1-based and inclusive here; empty when a > b
Slice(s, a, b) == IF a > b THEN <<>> ELSE SubSeq(s, a, b)

\* the literal lit occurs in s at position p
StartsAt(s, p, lit) ==
    /\ p >= 1
    /\ p + Len(lit) - 1 <= Len(s)
    /\ \A k \in 1..Len(lit) : s[p + k - 1] = lit[k]

\* the same, ignoring case
StartsAtCI(s, p, lit) ==
    /\ p >= 1
    /\ p + Len(lit) - 1 <= Len(s)
    /\ \A k \in 1..Len(lit) : ToLower(s[p + k - 1]) = lit[k]

\* str.startswith
StartsWith(s, lit) == StartsAt(s, 1, lit)

\* lit in s
Contains(s, lit) == \E p \in 1..Len(s) : StartsAt(s, p, lit)

\* the number of consecutive characters of s from position p on that are in cls
RunLen(s, p, cls) ==
    LET stop == {q \in p..Len(s) : s[q] \notin cls}
    IN  IF p > Len(s) THEN 0
        ELSE IF stop = {} THEN Len(s) - p + 1
        ELSE MinOf(stop) - p

\* the number of consecutive characters of s from position p on that are not in excl
RunLenNot(s, p, excl) ==
    LET stop == {q \in p..Len(s) : s[q] \in excl}
    IN  IF p > Len(s) THEN 0
        ELSE IF stop = {} THEN Len(s) - p + 1
        ELSE MinOf(stop) - p

\* str.lstrip(chars)
LStripSet(s, cls) == Slice(s, RunLen(s, 1, cls) + 1, Len(s))

\* str.rstrip(chars)
RStripSet(s, cls) ==
    LET keep == {q \in 1..Len(s) : s[q] \notin cls}
    IN  IF keep = {} THEN <<>> ELSE SubSeq(s, 1, MaxOf(keep))

\* str.strip(chars)
StripSet(s, cls) == LStripSet(RStripSet(s, cls), cls)

\* str.strip()
Strip(s) == StripSet(s, WS)

\* str.rstrip()
RStrip(s) == RStripSet(s, WS)

\* bool(s.strip()): the text has a character that is not whitespace
NonBlank(s) == Strip(s) # <<>>

\* ------------------------------------------------------- secret redactor

REDACTED == <<"[","R","E","D","A","C","T","E","D","]">>

BeginLit == <<"-","-","-","-","-","B","E","G","I","N"," ">>

KeyKinds == {<<"R","S","A"," ">>, <<"E","C"," ">>, <<"O","P","E","N","S","S","H"," ">>, <<"D","S","A"," ">>}

PrivKeyLit == <<"P","R","I","V","A","T","E"," ","K","E","Y","-","-","-","-","-">>

EndLit == <<"-","-","-","-","-","E","N","D"," ">>

\* \b at position p of s: between s[p-1] and s[p]
WordBoundary(s, p) ==
    LET before == p - 1 >= 1 /\ p - 1 <= Len(s) /\ s[p - 1] \in WordChar
        after  == p >= 1 /\ p <= Len(s) /\ s[p] \in WordChar
    IN  before # after

\* -----BEGIN (?:RSA |EC |OPENSSH |DSA )?PRIVATE KEY-----  matched at p:
\* the position after it, 0 when it does not match
KeyHeaderEnd(s, p) ==
    IF ~StartsAt(s, p, BeginLit) THEN 0
    ELSE LET q == p + Len(BeginLit)
             kinds == {k \in KeyKinds :
                          StartsAt(s, q, k) /\ StartsAt(s, q + Len(k), PrivKeyLit)}
         IN  IF kinds # {}
             THEN LET k == CHOOSE k \in kinds : TRUE
                  IN  q + Len(k) + Len(PrivKeyLit)
             ELSE IF StartsAt(s, q, PrivKeyLit) THEN q + Len(PrivKeyLit)
             ELSE 0

\* pattern 1 (re.DOTALL): header .*? -----END .*? PRIVATE KEY-----
\* both .*? are lazy: the first -----END that a later PRIVATE KEY----- follows,
\* then the first such PRIVATE KEY-----
MatchPrivateKey(s, p) ==
    LET h == KeyHeaderEnd(s, p)
        ends == {j \in h..Len(s) :
                    /\ StartsAt(s, j, EndLit)
                    /\ \E k \in (j + Len(EndLit))..Len(s) : StartsAt(s, k, PrivKeyLit)}
    IN  IF h = 0 \/ ends = {} THEN 0
        ELSE LET j == MinOf(ends)
                 k == MinOf({k \in (j + Len(EndLit))..Len(s) : StartsAt(s, k, PrivKeyLit)})
             IN  k + Len(PrivKeyLit)

\* \b<prefix>[0-9A-Z]{16}\b  (patterns 2 and 3: AKIA, ASIA)
MatchAwsKey(s, p, prefix) ==
    LET q == p + Len(prefix)
    IN  IF /\ WordBoundary(s, p)
           /\ StartsAt(s, p, prefix)
           /\ q + 15 <= Len(s)
           /\ \A k \in q..(q + 15) : s[k] \in Digit \cup Upper
           /\ WordBoundary(s, q + 16)
        THEN q + 16
        ELSE 0

\* \b<prefix><cls>{least,}\b  (patterns 4 to 7): the quantifier is greedy and
\* gives characters back until a word boundary follows
MatchToken(s, p, prefix, cls, least) ==
    LET q == p + Len(prefix)
        n == RunLen(s, q, cls)
        lens == {m \in least..n : WordBoundary(s, q + m)}
    IN  IF WordBoundary(s, p) /\ StartsAt(s, p, prefix) /\ lens # {}
        THEN q + MaxOf(lens)
        ELSE 0

\* (api[_-]?key|secret|token|password) matched at p ignoring case: the position
\* after it, 0 when none matches (the alternatives start with different letters)
SecretNameEnd(s, p) ==
    IF StartsAtCI(s, p, <<"a","p","i">>)
    THEN IF p + 3 <= Len(s) /\ s[p + 3] \in {"_", "-"} /\ StartsAtCI(s, p + 4, <<"k","e","y">>)
         THEN p + 7
         ELSE IF StartsAtCI(s, p + 3, <<"k","e","y">>) THEN p + 6 ELSE 0
    ELSE IF StartsAtCI(s, p, <<"s","e","c","r","e","t">>) THEN p + 6
    ELSE IF StartsAtCI(s, p, <<"t","o","k","e","n">>) THEN p + 5
    ELSE IF StartsAtCI(s, p, <<"p","a","s","s","w","o","r","d">>) THEN p + 8
    ELSE 0

Quotes == {"'", "\""}

\* pattern 8: (?i)\b(name)\b\s*[:=]\s*['"][^'"\n]{6,}['"]
MatchAssignment(s, p) ==
    LET e == SecretNameEnd(s, p)
        a == e + RunLen(s, e, WS)               \* the [:=]
        b == a + 1 + RunLen(s, a + 1, WS)       \* the opening quote
        n == RunLenNot(s, b + 1, Quotes \cup {"\n"})
        c == b + 1 + n                          \* the closing quote
    IN  IF /\ WordBoundary(s, p)
           /\ e > 0
           /\ WordBoundary(s, e)
           /\ a <= Len(s) /\ s[a] \in {":", "="}
           /\ b <= Len(s) /\ s[b] \in Quotes
           /\ n >= 6
           /\ c <= Len(s) /\ s[c] \in Quotes
        THEN c + 1
        ELSE 0

AlnumChar == Upper \cup Lower \cup Digit

NumPatterns == 8

\* SECRET_PATTERNS[k-1] matched at position p of s: the position after the match,
\* 0 when the pattern does not match there
MatchEnd(k, s, p) ==
    CASE k = 1 -> MatchPrivateKey(s, p)
      [] k = 2 -> MatchAwsKey(s, p, <<"A","K","I","A">>)
      [] k = 3 -> MatchAwsKey(s, p, <<"A","S","I","A">>)
      [] k = 4 -> MatchToken(s, p, <<"s","k","-">>, AlnumChar, 20)
      [] k = 5 -> MatchToken(s, p, <<"g","h","p","_">>, AlnumChar, 20)
      [] k = 6 -> MatchToken(s, p, <<"g","i","t","h","u","b","_","p","a","t","_">>, WordChar, 20)
      [] k = 7 -> MatchToken(s, p, <<"A","I","z","a">>, AlnumChar \cup {"-", "_"}, 30)
      [] k = 8 -> MatchAssignment(s, p)

\* pat.sub("[REDACTED]", s) from position from on: the leftmost match is replaced
\* and the scan goes on after it, on the original text
RECURSIVE SubFrom(_, _, _)
SubFrom(k, s, from) ==
    LET starts == {p \in from..Len(s) : MatchEnd(k, s, p) > 0}
    IN  IF starts = {} THEN Slice(s, from, Len(s))
        ELSE LET p == MinOf(starts)
             IN  Slice(s, from, p - 1) \o REDACTED \o SubFrom(k, s, MatchEnd(k, s, p))

\* the for loop of sanitize_text over SECRET_PATTERNS[0..k-1]
RECURSIVE SanitizeUpTo(_, _)
SanitizeUpTo(k, s) ==
    IF k = 0 THEN s ELSE SubFrom(k, SanitizeUpTo(k - 1, s), 1)

\* Variant: nothing is redacted.
sanitize_text_Identity(s) == s

sanitize_text(s) == SanitizeUpTo(NumPatterns, s)

\* ------------------------------------------------------------ arguments

\* Python's None, a value no text equals
None == <<"None">>

\* the result of split_lang_arg: its tuple, or error = TRUE and the message for
\* raise SystemExit(message)
SplitResult(lang, out, addall, push, conventional, ollama_model, openai_model, error) ==
    [lang |-> lang, out |-> out, addall |-> addall, push |-> push,
     conventional |-> conventional, ollama_model |-> ollama_model,
     openai_model |-> openai_model, error |-> error, message |-> <<>>]

\* the auto-detection of --model: gpt-*, o1*, o3* go to OpenAI
IsOpenAIModelName(model) ==
    StartsWith(model, <<"g","p","t","-">>) \/ StartsWith(model, <<"o","1">>) \/ StartsWith(model, <<"o","3">>)

\* the while loop of split_lang_arg from index i on (1-based), r the locals so far
RECURSIVE SplitLoop(_, _, _)
SplitLoop(argv, i, r) ==
    IF i > Len(argv) THEN r
    ELSE LET a == argv[i]
             missing == i + 1 > Len(argv)
         IN  IF a \in {<<"-","-","l","a","n","g">>, <<"-","-","m","o","d","e","l">>, <<"-","-","o","l","l","a","m","a","-","m","o","d","e","l">>, <<"-","-","o","p","e","n","a","i","-","m","o","d","e","l">>} /\ missing
             THEN [r EXCEPT !.error = TRUE,
                            !.message = <<"L","L","M","C","o","m","m","i","t",":"," ">> \o a \o <<" ","r","e","q","u","i","r","e","s"," ","a"," ","v","a","l","u","e">>
                                \o (IF a = <<"-","-","l","a","n","g">> THEN <<" ","(","e",".","g","."," ","-","-","l","a","n","g"," ","f","i",")">> ELSE <<>>)]
             ELSE IF a = <<"-","-","l","a","n","g">>
             THEN SplitLoop(argv, i + 2, [r EXCEPT !.lang = argv[i + 1]])
             ELSE IF a = <<"-","-","a","d","d","a","l","l">>
             THEN SplitLoop(argv, i + 1, [r EXCEPT !.addall = TRUE])
             ELSE IF a = <<"-","-","p","u","s","h">>
             THEN SplitLoop(argv, i + 1, [r EXCEPT !.push = TRUE])
             ELSE IF a = <<"-","-","c","o","n","v","e","n","t","i","o","n","a","l">>
             THEN SplitLoop(argv, i + 1, [r EXCEPT !.conventional = TRUE])
             ELSE IF a = <<"-","-","m","o","d","e","l">>
             THEN IF IsOpenAIModelName(argv[i + 1])
                  THEN SplitLoop(argv, i + 2, [r EXCEPT !.openai_model = argv[i + 1]])
                  ELSE SplitLoop(argv, i + 2, [r EXCEPT !.ollama_model = argv[i + 1]])
             ELSE IF a = <<"-","-","o","l","l","a","m","a","-","m","o","d","e","l">>
             THEN SplitLoop(argv, i + 2, [r EXCEPT !.ollama_model = argv[i + 1]])
             ELSE IF a = <<"-","-","o","p","e","n","a","i","-","m","o","d","e","l">>
             THEN SplitLoop(argv, i + 2, [r EXCEPT !.openai_model = argv[i + 1]])
             ELSE SplitLoop(argv, i + 1, [r EXCEPT !.out = Append(r.out, a)])

split_lang_arg(argv) ==
    SplitLoop(argv, 1, SplitResult(<<"e","n">>, <<>>, FALSE, FALSE, FALSE, None, None, FALSE))

\* a in args
HasToken(args, a) == \E i \in 1..Len(args) : args[i] = a

\* args.index(a) + 1
IndexOf(args, a) == MinOf({i \in 1..Len(args) : args[i] = a})

\* Variant: nothing is removed.
RemoveFirst_None(args, a) == args

\* args.remove(a): the first occurrence is removed
RemoveFirst(args, a) ==
    LET i == IndexOf(args, a)
    IN  Slice(args, 1, i - 1) \o Slice(args, i + 1, Len(args))

detect_pathspec(args) ==
    IF HasToken(args, <<"-","-">>)
    THEN Slice(args, IndexOf(args, <<"-","-">>) + 1, Len(args))
    ELSE <<>>

MESSAGE_CONTROL_FLAGS ==
    {<<"-","-","n","o","-","e","d","i","t">>, <<"-","-","r","e","u","s","e","-","m","e","s","s","a","g","e">>, <<"-","C">>, <<"-","-","r","e","e","d","i","t","-","m","e","s","s","a","g","e">>, <<"-","c">>, <<"-","-","f","i","x","u","p">>, <<"-","-","s","q","u","a","s","h">>}

INTERACTIVE_FLAGS == {<<"-","p">>, <<"-","-","p","a","t","c","h">>, <<"-","i">>, <<"-","-","i","n","t","e","r","a","c","t","i","v","e">>}

should_not_autogenerate(args) ==
    \/ \E i \in 1..Len(args) : args[i] \in INTERACTIVE_FLAGS
    \/ \E i \in 1..Len(args) : args[i] \in MESSAGE_CONTROL_FLAGS
    \/ \E i \in 1..Len(args) :
          \/ args[i] \in {<<"-","m">>, <<"-","-","m","e","s","s","a","g","e">>, <<"-","F">>, <<"-","-","f","i","l","e">>, <<"-","t">>, <<"-","-","t","e","m","p","l","a","t","e">>}
          \/ StartsWith(args[i], <<"-","m">>) /\ Len(args[i]) > 2
          \/ StartsWith(args[i], <<"-","F">>) /\ Len(args[i]) > 2
          \/ StartsWith(args[i], <<"-","t">>) /\ Len(args[i]) > 2

\* ------------------------------------------------------- context builder

TRUNCATION_MARKER == <<"\n","\n","[","D","I","F","F"," ","T","R","U","N","C","A","T","E","D","]","\n">>

NO_CHANGES_ERROR == <<"N","o"," ","c","h","a","n","g","e","s"," ","d","e","t","e","c","t","e","d"," ","f","o","r"," ","c","o","m","m","i","t"," ","m","e","s","s","a","g","e"," ","g","e","n","e","r","a","t","i","o","n",".","\n","I","f"," ","y","o","u"," ","m","e","a","n","t"," ","t","o"," ","c","o","m","m","i","t"," ","a","l","l"," ","t","r","a","c","k","e","d"," ","c","h","a","n","g","e","s",","," ","u","s","e"," ","-","a","."," ","O","t","h","e","r","w","i","s","e"," ","s","t","a","g","e"," ","c","h","a","n","g","e","s"," ","f","i","r","s","t"," ","(","g","i","t"," ","a","d","d"," ","-","A",")",".">>

GIT_FAILED_ERROR == <<"g","i","t"," ","c","o","m","m","a","n","d"," ","f","a","i","l","e","d">>

\* the result of one run_git call: its stdout, or ok = FALSE for a non-zero exit
\* with the message of the RuntimeError: git's stderr stripped, or
\* 'git command failed' when that is empty
GitOk(out) == [ok |-> TRUE, out |-> out, error |-> <<>>]

GitFail(err) ==
    [ok |-> FALSE, out |-> <<>>,
     error |-> IF Strip(err) # <<>> THEN Strip(err) ELSE GIT_FAILED_ERROR]

\* the two scopes of build_git_context
NsCached == <<<<"d","i","f","f">>, <<"-","-","c","a","c","h","e","d">>, <<"-","-","n","a","m","e","-","s","t","a","t","u","s">>>>

DiffCached == <<<<"d","i","f","f">>, <<"-","-","c","a","c","h","e","d">>, <<"-","-","n","o","-","c","o","l","o","r">>>>

NsHead == <<<<"d","i","f","f">>, <<"-","-","n","a","m","e","-","s","t","a","t","u","s">>, <<"H","E","A","D">>>>

DiffHead == <<<<"d","i","f","f">>, <<"-","-","n","o","-","c","o","l","o","r">>, <<"H","E","A","D">>>>

IncludeWorktree(args) ==
    HasToken(args, <<"-","a">>) \/ HasToken(args, <<"-","-","a","l","l">>) \/ HasToken(args, <<"-","-","i","n","c","l","u","d","e">>)

\* Variant: the HEAD scope is used whenever the working tree is asked for.
NsCmd_IgnoresHead(args, has_head) ==
    LET base == IF IncludeWorktree(args) THEN NsHead ELSE NsCached
        pathspec == detect_pathspec(args)
    IN  IF pathspec # <<>> THEN base \o <<<<"-","-">>>> \o pathspec ELSE base

\* the name-status command build_git_context runs
NsCmd(args, has_head) ==
    LET base == IF has_head /\ IncludeWorktree(args) THEN NsHead ELSE NsCached
        pathspec == detect_pathspec(args)
    IN  IF pathspec # <<>> THEN base \o <<<<"-","-">>>> \o pathspec ELSE base

\* the full-diff command build_git_context runs
DiffCmd(args, has_head) ==
    LET base == IF has_head /\ IncludeWorktree(args) THEN DiffHead ELSE DiffCached
        pathspec == detect_pathspec(args)
    IN  IF pathspec # <<>> THEN base \o <<<<"-","-">>>> \o pathspec ELSE base

\* s[:n]
Prefix(s, n) == Slice(s, 1, MinOf({n, Len(s)}))

\* Variant: the marker is appended whatever the length.
CapDiff_AlwaysMarks(diff, max_chars) == Prefix(diff, max_chars) \o TRUNCATION_MARKER

\* Variant: the diff is cut without a marker.
CapDiff_Silent(diff, max_chars) == Prefix(diff, max_chars)

\* the diff after the length cap:
\* if len(diff) > max_chars: diff = diff[:max_chars] + marker
CapDiff(diff, max_chars) ==
    IF Len(diff) > max_chars
    THEN Prefix(diff, max_chars) \o TRUNCATION_MARKER
    ELSE diff

\* the diff section of the returned context
DiffSection(diff, max_chars) == Strip(CapDiff(diff, max_chars))

\* the text build_git_context returns
ContextText(name_status, status, diff_section) ==
    <<"S","t","a","g","e","d","/","s","e","l","e","c","t","e","d"," ","f","i","l","e"," ","s","u","m","m","a","r","y"," ","(","n","a","m","e","-","s","t","a","t","u","s",")",":","\n">>
    \o (IF name_status # <<>> THEN name_status ELSE <<"(","n","o","n","e",")">>) \o <<"\n","\n">>
    \o <<"R","e","p","o"," ","s","t","a","t","u","s"," ","(","p","o","r","c","e","l","a","i","n",")",":","\n">>
    \o (IF status # <<>> THEN status ELSE <<"(","c","l","e","a","n"," ","o","r"," ","n","o","t"," ","a","v","a","i","l","a","b","l","e",")">>) \o <<"\n","\n">>
    \o <<"D","i","f","f"," ","o","f"," ","w","h","a","t"," ","w","i","l","l"," ","b","e"," ","c","o","m","m","i","t","t","e","d",":","\n">>
    \o diff_section \o <<"\n">>

\* Variant: build_git_context without the test for an empty diff.
build_git_context_NoCheck(args, max_chars, has_head, ns, raw, st) ==
    LET diff == sanitize_text(raw.out)
        name_status == Strip(ns.out)
        status == Strip(st.out)
        section == DiffSection(diff, max_chars)
    IN  IF ~ns.ok \/ ~raw.ok \/ ~st.ok
        THEN [ok |-> FALSE,
              error |-> IF ~ns.ok THEN ns.error ELSE IF ~raw.ok THEN raw.error ELSE st.error,
              name_status |-> <<>>, status |-> <<>>, diff |-> <<>>, text |-> <<>>]
        ELSE [ok |-> TRUE, error |-> <<>>, name_status |-> name_status,
              status |-> status, diff |-> section,
              text |-> ContextText(name_status, status, section)]

\* Variant: the diff is cut to the cap first and redacted afterwards.
build_git_context_CapsFirst(args, max_chars, has_head, ns, raw, st) ==
    LET diff == sanitize_text(CapDiff(raw.out, max_chars))
        name_status == Strip(ns.out)
        status == Strip(st.out)
        section == Strip(diff)
        fail(e) == [ok |-> FALSE, error |-> e, name_status |-> <<>>, status |-> <<>>,
                    diff |-> <<>>, text |-> <<>>]
    IN  IF ~ns.ok THEN fail(ns.error)
        ELSE IF ~raw.ok THEN fail(raw.error)
        ELSE IF ~st.ok THEN fail(st.error)
        ELSE IF ~NonBlank(diff) THEN fail(NO_CHANGES_ERROR)
        ELSE [ok |-> TRUE, error |-> <<>>, name_status |-> name_status,
              status |-> status, diff |-> section,
              text |-> ContextText(name_status, status, section)]

\* build_git_context(args, max_chars) where the three git queries answer ns,
\* raw and st: the context, or ok = FALSE and the message of the RuntimeError.
\* The queries run in the order name-status, diff, status; the first that fails
\* raises.
build_git_context(args, max_chars, has_head, ns, raw, st) ==
    LET diff == sanitize_text(raw.out)
        name_status == Strip(ns.out)
        status == Strip(st.out)
        section == DiffSection(diff, max_chars)
        fail(e) == [ok |-> FALSE, error |-> e, name_status |-> <<>>, status |-> <<>>,
                    diff |-> <<>>, text |-> <<>>]
    IN  IF ~ns.ok THEN fail(ns.error)
        ELSE IF ~raw.ok THEN fail(raw.error)
        ELSE IF ~st.ok THEN fail(st.error)
        ELSE IF ~NonBlank(diff) THEN fail(NO_CHANGES_ERROR)
        ELSE [ok |-> TRUE, error |-> <<>>, name_status |-> name_status,
              status |-> status, diff |-> section,
              text |-> ContextText(name_status, status, section)]

\* ---------------------------------------------------- message normalizer

\* The grave accent (U+0060) cannot be written in a TLA+ string: this value stands
\* for that one character wherever a text holds it.
Backtick == "U+0060"

FENCE == <<Backtick, Backtick, Backtick>>

LineBreaks == {"\n", "\r"}

\* str.splitlines() for the line breaks \n, \r and \r\n
RECURSIVE SplitLines(_)
SplitLines(s) ==
    LET n == RunLenNot(s, 1, LineBreaks)
        skip == IF n + 2 <= Len(s) /\ s[n + 1] = "\r" /\ s[n + 2] = "\n" THEN 2 ELSE 1
    IN  IF s = <<>> THEN <<>>
        ELSE IF n = Len(s) THEN <<s>>
        ELSE <<Slice(s, 1, n)>> \o SplitLines(Slice(s, n + 1 + skip, Len(s)))

\* "\n".join(lines)
RECURSIVE JoinLines(_)
JoinLines(lines) ==
    IF lines = <<>> THEN <<>>
    ELSE IF Len(lines) = 1 THEN lines[1]
    ELSE lines[1] \o <<"\n">> \o JoinLines(Tail(lines))

\* re.sub(r"^\s*FENCE.*?\n", "", s): a leading fence line, up to its line break
StripLeadingFence(s) ==
    LET w == RunLen(s, 1, WS)
        nl == {q \in (w + 4)..Len(s) : s[q] = "\n"}
    IN  IF StartsAt(s, w + 1, FENCE) /\ nl # {}
        THEN Slice(s, MinOf(nl) + 1, Len(s))
        ELSE s

\* re.sub(r"\n\s*FENCE\s*$", "", s): a trailing fence line with its line break
StripTrailingFence(s) ==
    LET at == {p \in 1..Len(s) :
                  /\ s[p] = "\n"
                  /\ LET q == p + 1 + RunLen(s, p + 1, WS)
                     IN  /\ StartsAt(s, q, FENCE)
                         /\ \A k \in (q + 3)..Len(s) : s[k] \in WS}
    IN  IF at = {} THEN s ELSE Slice(s, 1, MinOf(at) - 1)

SUBJECT_MAX == 72

\* cut.rsplit(" ", 1)[0] when " " is in cut
BeforeLastSpace(cut) == Slice(cut, 1, MaxOf({q \in 1..Len(cut) : cut[q] = " "}) - 1)

\* Variant: the subject is kept whole.
ClipSubject_None(subject) == subject

\* the subject clip of normalize_message
ClipSubject(subject) ==
    IF Len(subject) > SUBJECT_MAX
    THEN LET cut == Slice(subject, 1, SUBJECT_MAX)
             word == IF \E q \in 1..Len(cut) : cut[q] = " "
                     THEN BeforeLastSpace(cut) ELSE cut
         IN  RStripSet(word, {" ", ",", ";", ":", "-"})
    ELSE subject

normalize_message(msg) ==
    LET s1 == StripTrailingFence(StripLeadingFence(Strip(msg)))
        s == Strip(StripSet(StripSet(Strip(s1), {"\""}), {"'"}))
        lines == SplitLines(s)
        subject == ClipSubject(Strip(lines[1]))
        body == RStrip(JoinLines(Tail(lines)))
    IN  IF lines = <<>> THEN <<>>
        ELSE subject \o (IF body # <<>> THEN <<"\n">> \o body ELSE <<>>)

\* message_to_git_m_args of a non-empty message
message_to_git_m_args(msg) ==
    LET lines == SplitLines(msg)
        subject == Strip(lines[1])
        body == Strip(JoinLines(Tail(lines)))
    IN  <<<<"-","m">>, subject>> \o (IF body # <<>> THEN <<<<"-","m">>, body>> ELSE <<>>)

\* ------------------------------------------------------ provider clients

\* An exception: its class, the status code of an HTTPError (0 otherwise) and
\* the message of a RuntimeError this program raises (empty otherwise).
Exc(cls, code, what) == [cls |-> cls, code |-> code, what |-> what]

NoExc == Exc("none", 0, <<>>)

\* isinstance(e, cls): urllib.error.HTTPError is a subclass of urllib.error.URLError
IsInstance(e, cls) ==
    \/ e.cls = cls
    \/ e.cls = "HTTPError" /\ cls = "URLError"

\* What one HTTP request meets:
\*   neterror  the connection fails (urlopen raises URLError)
\*   timeout   the per-call timeout expires while waiting for or reading the
\*             response (the socket raises TimeoutError)
\*   http      an error status (urlopen raises HTTPError); temp_msg: the error
\*             message of the body mentions "temperature" or "not supported"
\*   badjson   a 200 whose body is not JSON (json.loads raises ValueError)
\*   ok        a 200 whose envelope carries the text parts texts (for hosted
\*             API B: the parts of the first candidate)
\*   empty     a 200 whose body is the JSON object {}: no message, no choice,
\*             no candidate
Reply(kind, code, temp_msg, texts) ==
    [kind |-> kind, code |-> code, temp_msg |-> temp_msg, texts |-> texts]

\* what a client call gives its caller: the text it returns or the exception it
\* raises, and the requests it sent (model, and whether temperature was in the payload)
Returned(text, requests) == [exc |-> NoExc, text |-> text, requests |-> requests]

Raised(e, requests) == [exc |-> e, text |-> <<>>, requests |-> requests]

Request(model, temperature) == [model |-> model, temperature |-> temperature]

\* the exception urlopen / resp.read / json.loads raise for a reply that is not ok
TransportExc(reply) ==
    CASE reply.kind = "neterror" -> Exc("URLError", 0, <<>>)
      [] reply.kind = "timeout" -> Exc("TimeoutError", 0, <<>>)
      [] reply.kind = "http" -> Exc("HTTPError", reply.code, <<>>)
      [] reply.kind = "badjson" -> Exc("ValueError", 0, <<>>)

\* (j.get("message") or {}).get("content") or "": the content field, "" when missing
FirstTextOrEmpty(texts) == IF texts = <<>> THEN <<>> ELSE texts[1]

\* Variant: an empty content field is an error.
call_ollama_RaisesOnEmpty(model, OLLAMA_MODEL_, reply) ==
    LET req == <<Request(IF model = None THEN OLLAMA_MODEL_ ELSE model, TRUE)>>
    IN  IF reply.kind \in {"ok", "empty"}
        THEN IF Strip(FirstTextOrEmpty(reply.texts)) = <<>>
             THEN Raised(Exc("RuntimeError", 0, <<>>), req)
             ELSE Returned(Strip(FirstTextOrEmpty(reply.texts)), req)
        ELSE Raised(TransportExc(reply), req)

\* call_ollama with the model override of main (None: OLLAMA_MODEL)
call_ollama(model, OLLAMA_MODEL_, reply) ==
    LET req == <<Request(IF model = None THEN OLLAMA_MODEL_ ELSE model, TRUE)>>
    IN  IF reply.kind \in {"ok", "empty"}
        THEN Returned(Strip(FirstTextOrEmpty(reply.texts)), req)
        ELSE Raised(TransportExc(reply), req)

\* extract_openai_text: choices[0].message.content, stripped, "" when there is none
extract_openai_text(texts) == Strip(FirstTextOrEmpty(texts))

\* re.match(r"^o[0-9]", model)
IsReasoningModel(model) ==
    Len(model) >= 2 /\ model[1] = "o" /\ model[2] \in Digit

NO_TEXT_ERROR == <<"O","p","e","n","A","I"," ","r","e","s","p","o","n","s","e"," ","c","o","n","t","a","i","n","e","d"," ","n","o"," ","t","e","x","t"," ","o","u","t","p","u","t">>

RATE_LIMIT_ERROR == <<"O","p","e","n","A","I"," ","r","a","t","e"," ","l","i","m","i","t"," ","e","x","c","e","e","d","e","d","."," ","P","l","e","a","s","e"," ","t","r","y"," ","a","g","a","i","n"," ","l","a","t","e","r",".">>

AUTH_ERROR == <<"O","p","e","n","A","I"," ","a","u","t","h","e","n","t","i","c","a","t","i","o","n"," ","f","a","i","l","e","d","."," ","C","h","e","c","k"," ","y","o","u","r"," ","O","P","E","N","A","I","_","A","P","I","_","K","E","Y",".">>

NOT_FOUND_ERROR(model) ==
    <<"O","p","e","n","A","I"," ","m","o","d","e","l"," ","'">> \o model \o <<"'"," ","n","o","t"," ","f","o","u","n","d","."," ","C","h","e","c","k"," ","O","P","E","N","A","I","_","M","O","D","E","L"," ","s","e","t","t","i","n","g",".">>

HTTP_ERROR == <<"O","p","e","n","A","I"," ","H","T","T","P">>

\* the RuntimeError call_openai raises for an HTTPError with this status (the
\* message of the last case goes on with the status and the body's message)
OpenAIHttpExc(code, model) ==
    CASE code = 429 -> Exc("RuntimeError", 0, RATE_LIMIT_ERROR)
      [] code = 401 -> Exc("RuntimeError", 0, AUTH_ERROR)
      [] code = 404 -> Exc("RuntimeError", 0, NOT_FOUND_ERROR(model))
      [] OTHER -> Exc("RuntimeError", 0, HTTP_ERROR)

NO_OPENAI_KEY_ERROR == <<"O","P","E","N","A","I","_","A","P","I","_","K","E","Y"," ","i","s"," ","n","o","t"," ","s","e","t">>

\* Variant: the repeated request still carries the temperature.
call_openai_KeepsTemperature(model, OPENAI_MODEL_, OPENAI_API_KEY_, reply, reply2) ==
    LET is_reasoning_model == IsReasoningModel(OPENAI_MODEL_)
        use_temperature == ~is_reasoning_model
        req1 == Request(OPENAI_MODEL_, use_temperature)
        req2 == Request(OPENAI_MODEL_, use_temperature)
        text == extract_openai_text(reply.texts)
        text2 == extract_openai_text(reply2.texts)
    IN  IF OPENAI_API_KEY_ = <<>>
        THEN Raised(Exc("RuntimeError", 0, NO_OPENAI_KEY_ERROR), <<>>)
        ELSE IF reply.kind \in {"ok", "empty"}
        THEN IF text # <<>> THEN Returned(text, <<req1>>)
             ELSE Raised(Exc("RuntimeError", 0, NO_TEXT_ERROR), <<req1>>)
        ELSE IF reply.kind # "http" THEN Raised(TransportExc(reply), <<req1>>)
        ELSE IF reply.code = 400 /\ use_temperature /\ reply.temp_msg
        THEN IF reply2.kind = "ok" /\ text2 # <<>>
             THEN Returned(text2, <<req1, req2>>)
             ELSE Raised(OpenAIHttpExc(reply.code, OPENAI_MODEL_), <<req1, req2>>)
        ELSE Raised(OpenAIHttpExc(reply.code, OPENAI_MODEL_), <<req1>>)

\* call_openai with the model override of main; reply answers the first request,
\* reply2 the request repeated without temperature (when one is sent).
\* The payload and the reasoning-model test read the global OPENAI_MODEL.
call_openai(model, OPENAI_MODEL_, OPENAI_API_KEY_, reply, reply2) ==
    LET is_reasoning_model == IsReasoningModel(OPENAI_MODEL_)
        use_temperature == ~is_reasoning_model
        req1 == Request(OPENAI_MODEL_, use_temperature)
        req2 == Request(OPENAI_MODEL_, FALSE)
        text == extract_openai_text(reply.texts)
        text2 == extract_openai_text(reply2.texts)
    IN  IF OPENAI_API_KEY_ = <<>>
        THEN Raised(Exc("RuntimeError", 0, NO_OPENAI_KEY_ERROR), <<>>)
        ELSE IF reply.kind \in {"ok", "empty"}
        THEN IF text # <<>> THEN Returned(text, <<req1>>)
             ELSE Raised(Exc("RuntimeError", 0, NO_TEXT_ERROR), <<req1>>)
        ELSE IF reply.kind # "http" THEN Raised(TransportExc(reply), <<req1>>)
        ELSE IF reply.code = 400 /\ use_temperature /\ reply.temp_msg
        THEN IF reply2.kind = "ok" /\ text2 # <<>>
             THEN Returned(text2, <<req1, req2>>)
             ELSE Raised(OpenAIHttpExc(reply.code, OPENAI_MODEL_), <<req1, req2>>)
        ELSE Raised(OpenAIHttpExc(reply.code, OPENAI_MODEL_), <<req1>>)

NO_PARTS_ERROR == <<"G","e","m","i","n","i"," ","r","e","s","p","o","n","s","e"," ","c","o","n","t","a","i","n","e","d"," ","n","o"," ","p","a","r","t","s">>

GEMINI_NO_TEXT_ERROR == <<"G","e","m","i","n","i"," ","r","e","s","p","o","n","s","e"," ","c","o","n","t","a","i","n","e","d"," ","n","o"," ","t","e","x","t"," ","o","u","t","p","u","t">>

NO_GEMINI_KEY_ERROR == <<"G","E","M","I","N","I","_","A","P","I","_","K","E","Y"," ","i","s"," ","n","o","t"," ","s","e","t">>

\* call_gemini: the text of parts[0] of the first candidate; an answer without
\* candidates, without parts or without text raises
call_gemini(GEMINI_MODEL_, GEMINI_API_KEY_, reply) ==
    LET req == <<Request(GEMINI_MODEL_, TRUE)>>
    IN  IF GEMINI_API_KEY_ = <<>>
        THEN Raised(Exc("RuntimeError", 0, NO_GEMINI_KEY_ERROR), <<>>)
        ELSE IF reply.kind = "empty"
        THEN Raised(Exc("RuntimeError", 0, <<"G","e","m","i","n","i"," ","r","e","s","p","o","n","s","e"," ","c","o","n","t","a","i","n","e","d"," ","n","o"," ","c","a","n","d","i","d","a","t","e","s">>), req)
        ELSE IF reply.kind # "ok" THEN Raised(TransportExc(reply), req)
        ELSE IF reply.texts = <<>> THEN Raised(Exc("RuntimeError", 0, NO_PARTS_ERROR), req)
        ELSE IF reply.texts[1] = <<>>
        THEN Raised(Exc("RuntimeError", 0, GEMINI_NO_TEXT_ERROR), req)
        ELSE Returned(Strip(reply.texts[1]), req)

\* --------------------------------------------------- retry/backoff wrapper

MAX_RETRIES == 3

BASE_DELAY == 1

RECURSIVE Pow2(_)
Pow2(n) == IF n = 0 THEN 1 ELSE 2 * Pow2(n - 1)

\* base_delay * (2 ** attempt)
\* Variant: a constant delay in place of the exponential one.
BackoffDelay_Constant(attempt) == BASE_DELAY

\* base_delay * (2 ** attempt)
BackoffDelay(attempt) == BASE_DELAY * Pow2(attempt)

MAX_RETRIES_ERROR == <<"M","a","x"," ","r","e","t","r","i","e","s"," ","e","x","c","e","e","d","e","d">>

\* Variant: the except clauses without the test for the last attempt.
RetryDecision_AlwaysSleep(e, attempt) ==
    IF IsInstance(e, "URLError") THEN "sleep"
    ELSE IF IsInstance(e, "HTTPError") /\ e.code = 429 THEN "sleep"
    ELSE "raise"

\* The except clauses of retry_with_backoff for the exception e of attempt
\* number attempt (from 0): "sleep" (back off and go round the loop again) or
\* "raise" (the exception leaves the wrapper).  The clauses are tried in the
\* order written: except URLError, then except HTTPError.
RetryDecision(e, attempt) ==
    IF IsInstance(e, "URLError")
    THEN IF attempt = MAX_RETRIES - 1 THEN "raise" ELSE "sleep"
    ELSE IF IsInstance(e, "HTTPError")
    THEN IF e.code = 429
         THEN IF attempt = MAX_RETRIES - 1 THEN "raise" ELSE "sleep"
         ELSE "raise"
    ELSE "raise"

\* ---- the lines of main and smart_push ----

\* str(n) of a natural number
RECURSIVE Str(_)
Str(n) ==
    IF n < 10 THEN <<<<"0","1","2","3","4","5","6","7","8","9">>[n + 1]>>
    ELSE Str(n \div 10) \o <<<<"0","1","2","3","4","5","6","7","8","9">>[(n % 10) + 1]>>

\* [f for f in s.split('\n') if f]
RECURSIVE SplitNonEmpty(_)
SplitNonEmpty(s) ==
    IF s = <<>> THEN <<>>
    ELSE LET n == RunLenNot(s, 1, {"\n"})
             rest == SplitNonEmpty(Slice(s, n + 2, Len(s)))
         IN  IF n = 0 THEN rest ELSE <<Slice(s, 1, n)>> \o rest

\* the lines main prints for the files git add failed on (lines 865-871)
AddWarning(failed_files) ==
    <<<<"L","L","M","C","o","m","m","i","t",":"," ","W","a","r","n","i","n","g"," ","-"," ","f","a","i","l","e","d"," ","t","o"," ","a","d","d"," ">> \o Str(Len(failed_files)) \o <<" ","f","i","l","e","(","s",")",":">>>>
    \o [k \in 1..(IF Len(failed_files) > 5 THEN 5 ELSE Len(failed_files)) |->
            <<" "," ","-"," ">> \o failed_files[k]]
    \o (IF Len(failed_files) > 5
        THEN <<<<" "," ",".",".","."," ","a","n","d"," ">> \o Str(Len(failed_files) - 5) \o <<" ","m","o","r","e">>>> ELSE <<>>)

\* smart_push (lines 788-815) where git push answers with exit code rc and
\* the text err on its stderr, and a second push with --set-upstream with rc2:
\* the code it returns and the lines it prints to stderr (the second push is
\* not captured: git writes to the terminal itself)
smart_push(rc, err, rc2) ==
    LET no_upstream == Contains(err, <<"h","a","s"," ","n","o"," ","u","p","s","t","r","e","a","m"," ","b","r","a","n","c","h">>)
                           \/ Contains(err, <<"n","o"," ","u","p","s","t","r","e","a","m"," ","c","o","n","f","i","g","u","r","e","d">>)
    IN  IF rc = 0 THEN [code |-> 0, lines |-> SplitLines(err)]
        ELSE IF no_upstream THEN [code |-> rc2, lines |-> <<>>]
        ELSE [code |-> rc, lines |-> SplitLines(err)]

\* ------------------------------------------------------------- inputs

OLLAMA == <<"o","l","l","a","m","a">>

OPENAI == <<"o","p","e","n","a","i">>

GEMINI == <<"g","e","m","i","n","i">>

\* an identity the pipeline does not know
UNKNOWN == <<"c","l","a","u","d","e">>

ProviderNames == {OLLAMA, OPENAI, GEMINI, UNKNOWN}

\* the longest provider order explored
MaxOrderLen == 3

\* the length cap build_git_context is called with (its max_chars parameter)
MaxChars == 24

RECURSIVE SeqsUpTo(_, _)
SeqsUpTo(S, n) ==
    IF n = 0 THEN {<<>>}
    ELSE LET shorter == SeqsUpTo(S, n - 1)
         IN  shorter \cup {Append(q, x) : q \in {r \in shorter : Len(r) = n - 1}, x \in S}

NoRepeat(q) == \A i, j \in 1..Len(q) : i # j => q[i] # q[j]

\* LLMCOMMIT_PROVIDERS as line 91 reads it: the orders of up to MaxOrderLen
\* entries without a repeated name, the empty order among them (the variable
\* set to '' or ','), and the orders that name one provider twice. Longer
\* orders, and orders that repeat a name otherwise, are not explored.
Orders ==
    {q \in SeqsUpTo(ProviderNames, MaxOrderLen) : NoRepeat(q)}
        \cup {<<p, p>> : p \in ProviderNames}

ApiKeys == {<<>>, <<"k">>}

DEFAULT_OPENAI_MODEL == <<"g","p","t","-","4","o","-","m","i","n","i">>

DEFAULT_OLLAMA_MODEL == <<"q","w","e","n","3",":","8","b">>

DEFAULT_GEMINI_MODEL == <<"g","e","m","i","n","i","-","1",".","5","-","f","l","a","s","h">>

OpenAIModels == {DEFAULT_OPENAI_MODEL, <<"o","1","-","m","i","n","i">>}

\* texts a model answers with
TxtFix == <<"F","i","x"," ","b","u","g">>

TxtFenced == <<Backtick, Backtick, Backtick>> \o <<"\n","F","i","x"," ","b","u","g","\n","\n","-"," ","c","o","r","r","e","c","t","e","d"," ","o","f","f","-","b","y","-","o","n","e","\n">>
                 \o <<Backtick, Backtick, Backtick>>

TxtQuotes == <<"\"","\"">>

TxtBlank == <<" ","\n">>

\* the text parts of a 200 reply: none, an empty one, a blank one, usable ones,
\* one that normalizes to nothing, and two parts
ReplyTexts ==
    {<<>>, <<<<>>>>, <<TxtBlank>>, <<TxtFix>>, <<TxtFenced>>, <<TxtQuotes>>,
     <<<<"F","i","x"," ">>, <<"b","u","g">>>>}

HttpCodes == {400, 401, 404, 429, 500}

Replies ==
    {Reply("neterror", 0, FALSE, <<>>), Reply("timeout", 0, FALSE, <<>>),
     Reply("badjson", 0, FALSE, <<>>), Reply("http", 400, TRUE, <<>>),
     Reply("empty", 0, FALSE, <<>>)}
        \cup {Reply("http", c, FALSE, <<>>) : c \in HttpCodes}
        \cup {Reply("ok", 0, FALSE, t) : t \in ReplyTexts}

\* git diff outputs: nothing, a change below the cap, one above it, one with a
\* secret
DiffSmall == <<"d","i","f","f"," ","-","-","g","i","t"," ","a","/","f"," ","b","/","f","\n","+","x","\n">>

DiffLong == <<"d","i","f","f"," ","-","-","g","i","t"," ","a","/","f"," ","b","/","f","\n","+","0","1","2","3","4","5","6","7","8","9","\n">>

DiffSecret == <<"d","i","f","f","\n","+","t","o","k","e","n"," ","="," ","\"","h","u","n","t","e","r","2","2","\"","\n">>

\* a change whose last hunk ends with an empty context line (a space, then the
\* line break)
DiffBlankTail == <<"d","i","f","f"," ","-","-","g","i","t"," ","a"," ","b","\n","+","x","\n"," ","\n">>

\* an added line that opens a quoted secret and an unchanged line that holds
\* another one and closes the first
DiffNested == <<"d","i","f","f","\n","+","t","o","k","e","n","=","\"","t","o","k","e","n","=","\n"," ","\"","h","u","n","t","e","r","\"","\"","\n">>

\* an added file that holds a private key
DiffKey == <<"d","i","f","f","\n","+","-","-","-","-","-","B","E","G","I","N"," ","R","S","A"," ","P","R","I","V","A","T","E"," ","K","E","Y","-","-","-","-","-","\n","+","M","I","I","E","p","A","\n","+","-","-","-","-","-","E","N","D"," ","R","S","A"," ","P","R","I","V","A","T","E"," ","K","E","Y","-","-","-","-","-","\n">>

Diffs == {<<>>, DiffSmall, DiffLong, DiffSecret, DiffBlankTail, DiffNested, DiffKey}

NameStatus == <<"M","\t","f","\n">>

StatusOut == <<" ","M"," ","f","\n">>

\* The repository as main meets it: whether the directory is inside a work
\* tree, whether HEAD exists, what git answers to the staged and to the HEAD
\* diff, which of the three queries of build_git_context fails, if any, and
\* what git writes to its stderr when it does.
Repo(inside, has_head, staged, worktree, fails, err) ==
    [inside |-> inside, has_head |-> has_head, staged |-> staged,
     worktree |-> worktree, fails |-> fails, err |-> err]

Repos ==
    {Repo(FALSE, FALSE, <<>>, <<>>, "none", <<>>)}
        \cup {Repo(TRUE, h, s, w, "none", <<>>) :
                  h \in BOOLEAN, s \in {<<>>, DiffSmall}, w \in Diffs \ {<<>>}}
        \cup {Repo(TRUE, TRUE, DiffSmall, DiffSmall, f, e) :
                  f \in {"name-status", "diff", "status"},
                  e \in {<<>>, <<"f","a","t","a","l",":"," ","b","a","d"," ","r","e","v","i","s","i","o","n"," ","'","H","E","A","D","'","\n">>}}

GoodRepo == Repo(TRUE, TRUE, DiffSmall, DiffSmall, "none", <<>>)

\* command lines
Argvs ==
    {<<>>, <<<<"-","a">>>>, <<<<"-","-","l","a","n","g">>>>, <<<<"-","-","p","u","s","h">>>>, <<<<"-","-","r","e","v","i","e","w">>>>, <<<<"-","-","a","d","d","a","l","l">>>>,
     <<<<"-","m">>, <<"m","s","g">>>>, <<<<"-","a">>, <<"-","-">>, <<"f">>>>, <<<<"-","-","a","m","e","n","d">>, <<"-","-","o","p","e","n","a","i","-","m","o","d","e","l">>, <<"o","3">>>>,
     <<<<"-","-","a","l","l">>, <<"-","-">>, <<"f">>, <<"g">>>>}

\* ~/.llmcommit.json as load_config finds it: whether it exists and, when it
\* cannot be read as JSON, the text of the exception (empty when it can)
UserConfig(exists, error) == [exists |-> exists, error |-> error]

NoUserConfig == UserConfig(FALSE, <<>>)

\* Path.home() / ".llmcommit.json"
USER_CONFIG_PATH == <<"/","h","o","m","e","/","u","/",".","l","l","m","c","o","m","m","i","t",".","j","s","o","n">>

\* no file, a file that holds a JSON object, and one that holds '{not json'
UserConfigs ==
    {NoUserConfig, UserConfig(TRUE, <<>>),
     UserConfig(TRUE, <<"E","x","p","e","c","t","i","n","g"," ","p","r","o","p","e","r","t","y"," ","n","a","m","e"," ","e","n","c","l","o","s","e","d"," ","i","n"," ","d","o","u","b","l","e"," ","q","u","o","t","e","s",":"," ","l","i","n","e"," ","1"," ","c","o","l","u","m","n"," ","2"," ","(","c","h","a","r"," ","1",")">>)}

\* load_config, lines 46-52: the lines it prints to stderr for the user-level
\* file (the project-level file is read without a word, lines 55-66)
load_config(file, path) ==
    IF file.exists /\ file.error # <<>>
    THEN <<<<"W","a","r","n","i","n","g",":"," ","F","a","i","l","e","d"," ","t","o"," ","l","o","a","d"," ","u","s","e","r"," ","c","o","n","f","i","g"," ","f","r","o","m"," ">> \o path \o <<":"," ">> \o file.error>>
    ELSE <<>>

VARIABLES
    user_config,        \* ~/.llmcommit.json when the module is loaded
    argv,               \* sys.argv[1:]
    PROVIDER_ORDER,     \* the configured order
    OPENAI_API_KEY,     \* the credential of hosted API A, empty when absent
    GEMINI_API_KEY,     \* the credential of hosted API B, empty when absent
    OPENAI_MODEL,       \* the configured model of hosted API A
    DEBUG,              \* the debug switch (LLMCOMMIT_DEBUG): no spinner when
                        \* set. The '[DEBUG] ...' lines debug_log then writes
                        \* to stderr are not kept in stderr below.
    repo,               \* the repository main runs in
    pc,                 \* where the program is
    opts,               \* the result of split_lang_arg
    git_args,           \* the pass-through arguments
    review_mode,
    ctx,                \* the result of build_git_context
    ns_cmd,             \* the name-status query that was run
    diff_cmd,           \* the diff query that was run
    idx,                \* the position of the for loop in PROVIDER_ORDER
    msg,
    providers_tried,
    attempt,            \* the loop variable of retry_with_backoff
    sleeps,             \* the delays the current retry_with_backoff has slept
    calls,              \* per position of the order: invocations of its
                        \* client that were begun
    requests,           \* the HTTP requests the last client invocation sent
    last_exc,           \* the exception of the last invocation that has ended
    last_text,          \* the text the last invocation that has ended returned
    fate,               \* per position of the order: "none" (not reached),
                        \* "skipped", "returned" or "raised" (by the wrapper)
    first_success,      \* the first position whose client returned text that
                        \* is not blank, and that text (pos 0: none so far)
    wrapper_exc,        \* the exception the last retry_with_backoff raised
    spinner_running,    \* Spinner.running of the current spinner
    spinner_thread,     \* its thread: "none", "alive", "dead" (_spin has
                        \* returned) or "joined" (join has returned)
    stderr,             \* the lines the program printed to stderr, those of
                        \* debug_log (lines 98-101) left out
    commit_args,        \* the arguments of the git commit that was run
    committed,          \* git commit was run
    pushed,             \* git push was run
    exit_code           \* what main returned, -1 while it runs

config == <<user_config, argv, PROVIDER_ORDER, OPENAI_API_KEY, GEMINI_API_KEY, OPENAI_MODEL, DEBUG, repo>>

parsed == <<opts, git_args, review_mode>>

context == <<ctx, ns_cmd, diff_cmd>>

history == <<calls, requests, last_exc, last_text, fate, first_success>>

spinner == <<spinner_running, spinner_thread>>

pipeline == <<idx, msg, providers_tried, attempt, sleeps, wrapper_exc, spinner, history>>

outcome == <<commit_args, committed, pushed>>

vars == <<config, parsed, context, pipeline, outcome, pc, stderr, exit_code>>

NoContext == [ok |-> FALSE, error |-> <<>>, name_status |-> <<>>, status |-> <<>>,
              diff |-> <<>>, text |-> <<>>]

InitRun ==
    /\ pc = "load"
    /\ opts = split_lang_arg(<<>>)
    /\ git_args = <<>>
    /\ review_mode = FALSE
    /\ ctx = NoContext
    /\ ns_cmd = <<>>
    /\ diff_cmd = <<>>
    /\ idx = 1
    /\ msg = <<>>
    /\ providers_tried = <<>>
    /\ attempt = 0
    /\ sleeps = <<>>
    /\ calls = [i \in 1..Len(PROVIDER_ORDER) |-> 0]
    /\ requests = <<>>
    /\ last_exc = NoExc
    /\ last_text = <<>>
    /\ fate = [i \in 1..Len(PROVIDER_ORDER) |-> "none"]
    /\ first_success = [pos |-> 0, text |-> <<>>]
    /\ wrapper_exc = NoExc
    /\ spinner_running = FALSE
    /\ spinner_thread = "none"
    /\ stderr = <<>>
    /\ commit_args = <<>>
    /\ committed = FALSE
    /\ pushed = FALSE
    /\ exit_code = -1

\* every command line, with a short provider order: every repository before
\* the local server, every configured model before hosted API A
InitArguments ==
    /\ user_config \in UserConfigs
    /\ argv \in Argvs
    /\ repo \in Repos
    /\ PROVIDER_ORDER \in {<<OLLAMA>>, <<OPENAI>>}
    /\ PROVIDER_ORDER = <<OPENAI>> => repo = GoodRepo
    /\ OPENAI_API_KEY = <<"k">>
    /\ GEMINI_API_KEY = <<>>
    /\ OPENAI_MODEL \in OpenAIModels
    /\ PROVIDER_ORDER = <<OLLAMA>> => OPENAI_MODEL = DEFAULT_OPENAI_MODEL
    /\ DEBUG = FALSE

\* every provider order and credential, in a repository with staged changes
\* (a credential no entry of the order asks for is left unset); the debug
\* switch is on for some orders of one entry
InitProviders ==
    /\ user_config = NoUserConfig
    /\ argv = <<>>
    /\ repo = GoodRepo
    /\ PROVIDER_ORDER \in Orders
    /\ OPENAI_API_KEY \in ApiKeys
    /\ GEMINI_API_KEY \in ApiKeys
    /\ OPENAI_API_KEY # <<>> => HasToken(PROVIDER_ORDER, OPENAI)
    /\ GEMINI_API_KEY # <<>> => HasToken(PROVIDER_ORDER, GEMINI)
    /\ OPENAI_MODEL = DEFAULT_OPENAI_MODEL
    /\ DEBUG \in BOOLEAN
    /\ DEBUG => Len(PROVIDER_ORDER) <= 1

Init == (InitArguments \/ InitProviders) /\ InitRun


\* ---- raw model texts for the normalizer ----

\* c, n times
Rep(c, n) == [k \in 1..n |-> c]

\* how far below SUBJECT_MAX the first word of a long subject may end
SubjectMargin == 4

\* what stands between the first word of a subject and the rest
Separators == {<<>>, <<" ">>, <<","," ">>, <<" ","-"," ">>, <<":"," ">>, <<";","-"," "," ">>, <<"\t">>, <<"\t","-"," ">>}

\* subject lines around the clip: an optional short lead, a word that ends
\* near offset SUBJECT_MAX, a separator and a last word
LongSubjects ==
    {lead \o Rep("a", i - Len(lead)) \o sep \o Rep("b", j) :
        lead \in {<<>>, <<"F","i","x"," ","t","h","e"," ","b","u","g",":"," ">>},
        i \in (SUBJECT_MAX - SubjectMargin)..(SUBJECT_MAX + 1),
        sep \in Separators,
        j \in {2, SubjectMargin + 4}}

Bodies == {<<>>, <<"\n","\n","-"," ","c","o","r","r","e","c","t","e","d"," ","o","f","f","-","b","y","-","o","n","e">>}

\* a subject that ends with a quoted word
TxtQuotedWord == <<"F","i","x"," ","t","y","p","o"," ","i","n"," ","\"","R","E","A","D","M","E","\"">>

\* a first line that is a rule of dashes, longer than SUBJECT_MAX
TxtRule == Rep("-", SUBJECT_MAX + 1)

\* texts without a wrapper
PlainTexts ==
    {subject \o body :
        subject \in LongSubjects \cup {TxtFix, TxtQuotedWord, TxtRule}, body \in Bodies}

FenceTags == {<<>>, <<"t","e","x","t">>}

LineEnds == {<<"\n">>, <<"\r", "\n">>}

\* interior wrapped in a fenced code block
Fenced(tag, nl, interior) == FENCE \o tag \o nl \o interior \o nl \o FENCE

FencedTexts ==
    {Fenced(tag, nl, interior) : tag \in FenceTags, nl \in LineEnds, interior \in PlainTexts}

RawTexts == PlainTexts \cup FencedTexts
\* ------------------------------------------------------------- main

GitExitCodes == {0, 1}

\* main returns (or the interpreter exits) with this code after printing line
Exit(code, line) ==
    /\ pc' = "done"
    /\ exit_code' = code
    /\ stderr' = Append(stderr, line)

\* The module is loaded (lines 37-95): load_config reads the configuration
\* files and the globals are set from the environment and the files, before
\* main is called (line 1026). The model draws the globals at the start; the
\* step leaves on stderr what load_config prints.
LoadConfig ==
    /\ pc = "load"
    /\ stderr' = stderr \o load_config(user_config, USER_CONFIG_PATH)
    /\ pc' = "start"
    /\ UNCHANGED <<config, parsed, context, pipeline, outcome, exit_code>>

\* main, lines 836-843: the repository check and split_lang_arg, whose
\* SystemExit(message) ends the process with status 1
Start ==
    /\ pc = "start"
    /\ LET r == split_lang_arg(argv)
       IN  IF ~repo.inside
           THEN /\ Exit(2, <<"L","L","M","C","o","m","m","i","t",":"," ","n","o","t"," ","i","n","s","i","d","e"," ","a"," ","g","i","t"," ","r","e","p","o","s","i","t","o","r","y",".">>)
                /\ UNCHANGED parsed
           ELSE IF r.error
           THEN /\ Exit(1, r.message)
                /\ UNCHANGED parsed
           ELSE /\ opts' = r
                /\ git_args' = r.out
                /\ pc' = "addall"
                /\ UNCHANGED <<review_mode, stderr, exit_code>>
    /\ UNCHANGED <<config, context, pipeline, outcome>>

\* main, lines 845-881: --addall. ls is the answer of git ls-files, bad the
\* files git add fails on, answer what the user types at the prompt
\* (eof: the input ends or is interrupted instead).
AddAll ==
    /\ pc = "addall"
    /\ IF ~opts.addall
       THEN pc' = "autogen" /\ UNCHANGED <<stderr, exit_code>>
       ELSE \E ls \in {GitFail(<<>>), GitFail(<<"f","a","t","a","l",":"," ","n","o","t"," ","a"," ","g","i","t"," ","r","e","p","o","s","i","t","o","r","y","\n">>),
                       GitOk(<<>>), GitOk(<<"a","\n","b","\n">>), GitOk(<<"a","\n","b","\n","c","\n","d","\n","e","\n","f","\n","g","\n">>)} :
            \E bad \in {{}, {<<"a">>}, {<<"a">>, <<"b">>, <<"c">>, <<"d">>, <<"e">>, <<"f">>, <<"g">>}} :
            \E eof \in BOOLEAN, answer \in {<<"y">>, <<" ","Y","e","s">>, <<"n">>, <<>>} :
               LET file_list == SplitNonEmpty(Strip(ls.out))
                   failed_files == SelectSeq(file_list, LAMBDA f : f \in bad)
                   response == [k \in 1..Len(Strip(answer)) |-> ToLower(Strip(answer)[k])]
               IN  IF ~ls.ok
                   THEN Exit(2, <<"L","L","M","C","o","m","m","i","t",":"," ","E","r","r","o","r"," ","d","u","r","i","n","g"," ","-","-","a","d","d","a","l","l",":"," ">> \o ls.error)
                   ELSE IF failed_files = <<>>
                   THEN pc' = "autogen" /\ UNCHANGED <<stderr, exit_code>>
                   ELSE IF eof
                   THEN /\ stderr' = stderr \o AddWarning(failed_files)
                                         \o <<<<>>, <<"C","o","m","m","i","t"," ","c","a","n","c","e","l","l","e","d",".">>>>
                        /\ exit_code' = 1
                        /\ pc' = "done"
                   ELSE IF response \notin {<<"y">>, <<"y","e","s">>}
                   THEN /\ stderr' = stderr \o AddWarning(failed_files)
                                         \o <<<<"C","o","m","m","i","t"," ","c","a","n","c","e","l","l","e","d",".">>>>
                        /\ exit_code' = 1
                        /\ pc' = "done"
                   ELSE /\ stderr' = stderr \o AddWarning(failed_files)
                        /\ pc' = "autogen"
                        /\ UNCHANGED exit_code
    /\ UNCHANGED <<config, parsed, context, pipeline, outcome>>

\* what git push writes to its stderr when it fails: nothing, the remote's
\* refusal, or that the branch has no upstream
PushErrors ==
    {<<>>, <<"T","o"," ","o","r","i","g","i","n","\n">>, <<"f","a","t","a","l",":"," ","T","h","e"," ","c","u","r","r","e","n","t"," ","b","r","a","n","c","h"," ","b"," ","h","a","s"," ","n","o"," ","u","p","s","t","r","e","a","m"," ","b","r","a","n","c","h",".","\n">>}

\* main, lines 1015-1022 and 886-890: git commit with args, then git push when
\* --push was given and the commit succeeded; main returns the command's code
RunCommit(args) ==
    \E rc \in GitExitCodes :
        /\ committed' = TRUE
        /\ commit_args' = args
        /\ pushed' = (opts.push /\ rc = 0)
        /\ pc' = "done"
        /\ IF opts.push /\ rc = 0
           THEN \E push_rc \in GitExitCodes, rc2 \in GitExitCodes, err \in PushErrors :
                   LET push == smart_push(push_rc, err, rc2)
                   IN  /\ exit_code' = push.code
                       /\ stderr' = stderr \o push.lines
           ELSE /\ exit_code' = rc
                /\ UNCHANGED stderr

\* main, lines 883-899: explicit message or interactive staging goes straight
\* to git commit; otherwise the review flag is taken out of the arguments
Autogen ==
    /\ pc = "autogen"
    /\ IF should_not_autogenerate(git_args)
       THEN /\ RunCommit(git_args)
            /\ UNCHANGED parsed
       ELSE /\ review_mode' = (HasToken(git_args, <<"-","-","r","e","v","i","e","w">>)
                                  \/ HasToken(git_args, <<"-","-","i","n","t","e","r","a","c","t","i","v","e">>))
            /\ git_args' = IF HasToken(git_args, <<"-","-","r","e","v","i","e","w">>)
                           THEN RemoveFirst(git_args, <<"-","-","r","e","v","i","e","w">>)
                           ELSE IF HasToken(git_args, <<"-","-","i","n","t","e","r","a","c","t","i","v","e">>)
                           THEN RemoveFirst(git_args, <<"-","-","i","n","t","e","r","a","c","t","i","v","e">>)
                           ELSE git_args
            /\ pc' = "context"
            /\ UNCHANGED <<opts, outcome, stderr, exit_code>>
    /\ UNCHANGED <<config, context, pipeline>>

\* run_git(cmd) in repo for the three queries of build_git_context
GitAnswer(query, head_scope) ==
    LET raw == IF head_scope THEN repo.worktree ELSE repo.staged
    IN  IF repo.fails = query THEN GitFail(repo.err)
        ELSE CASE query = "name-status" -> GitOk(IF raw = <<>> THEN <<>> ELSE NameStatus)
               [] query = "diff" -> GitOk(raw)
               [] query = "status" -> GitOk(StatusOut)

\* Variant: main goes on to the providers whatever build_git_context raised.
BuildContext_GoesOn ==
    /\ pc = "context"
    /\ LET head_scope == repo.has_head /\ IncludeWorktree(git_args)
       IN  ctx' = build_git_context(git_args, MaxChars, repo.has_head,
                                    GitAnswer("name-status", head_scope),
                                    GitAnswer("diff", head_scope),
                                    GitAnswer("status", head_scope))
    /\ ns_cmd' = NsCmd(git_args, repo.has_head)
    /\ diff_cmd' = IF repo.fails = "name-status" THEN <<>>
                  ELSE DiffCmd(git_args, repo.has_head)
    /\ pc' = "loop"
    /\ UNCHANGED <<stderr, exit_code>>
    /\ UNCHANGED <<config, parsed, pipeline, outcome>>

\* main, lines 901-910: the context, or exit code 2 with the error's message
BuildContext ==
    /\ pc = "context"
    /\ LET head_scope == repo.has_head /\ IncludeWorktree(git_args)
           r == build_git_context(git_args, MaxChars, repo.has_head,
                                  GitAnswer("name-status", head_scope),
                                  GitAnswer("diff", head_scope),
                                  GitAnswer("status", head_scope))
       IN  /\ ctx' = r
           /\ ns_cmd' = NsCmd(git_args, repo.has_head)
           /\ diff_cmd' = IF repo.fails = "name-status" THEN <<>>
                         ELSE DiffCmd(git_args, repo.has_head)
           /\ IF r.ok
              THEN pc' = "loop" /\ UNCHANGED <<stderr, exit_code>>
              ELSE Exit(2, <<"L","L","M","C","o","m","m","i","t",":"," ">> \o r.error)
    /\ UNCHANGED <<config, parsed, pipeline, outcome>>

\* Variant: no provider is held back for want of a credential.
CredentialAbsent_Never(provider) == FALSE

\* the provider of the current loop position needs a credential that is absent
CredentialAbsent(provider) ==
    \/ provider = OPENAI /\ OPENAI_API_KEY = <<>>
    \/ provider = GEMINI /\ GEMINI_API_KEY = <<>>

\* Variant: the loop never breaks.
MessageFound_Never(m) == FALSE

\* if msg.strip(): break
MessageFound(m) == NonBlank(m)

\* main, lines 916-918 and 975-976: the loop is over, or breaks on a message
LoopEnds ==
    /\ pc = "loop"
    /\ idx > Len(PROVIDER_ORDER) \/ MessageFound(msg)
    /\ pc' = "after"
    /\ UNCHANGED <<config, parsed, context, pipeline, outcome, stderr, exit_code>>

\* main, lines 934-937, 954-957 and 973-974: continue with the next entry
Skip ==
    /\ pc = "loop"
    /\ idx <= Len(PROVIDER_ORDER) /\ ~MessageFound(msg)
    /\ \/ PROVIDER_ORDER[idx] \notin {OLLAMA, OPENAI, GEMINI}
       \/ CredentialAbsent(PROVIDER_ORDER[idx])
    /\ idx' = idx + 1
    /\ fate' = [fate EXCEPT ![idx] = "skipped"]
    /\ UNCHANGED <<msg, providers_tried, attempt, sleeps, wrapper_exc, spinner,
                   calls, requests, last_exc, last_text, first_success>>
    /\ UNCHANGED <<config, parsed, context, outcome, pc, stderr, exit_code>>

\* Variant: the attempt counter of the previous entry is carried over.
Enter_KeepsAttempt ==
    /\ pc = "loop"
    /\ idx <= Len(PROVIDER_ORDER) /\ ~MessageFound(msg)
    /\ PROVIDER_ORDER[idx] \in {OLLAMA, OPENAI, GEMINI}
    /\ ~CredentialAbsent(PROVIDER_ORDER[idx])
    /\ spinner_running' = ~DEBUG
    /\ spinner_thread' = IF DEBUG THEN "none" ELSE "alive"
    /\ attempt' = attempt
    /\ sleeps' = <<>>
    /\ requests' = <<>>
    /\ last_exc' = NoExc
    /\ last_text' = <<>>
    /\ wrapper_exc' = NoExc
    /\ pc' = "call"
    /\ UNCHANGED <<idx, msg, providers_tried, calls, fate, first_success>>
    /\ UNCHANGED <<config, parsed, context, outcome, stderr, exit_code>>

\* main, lines 920-925, 938-942 and 958-962: the spinner starts and
\* retry_with_backoff is entered
Enter ==
    /\ pc = "loop"
    /\ idx <= Len(PROVIDER_ORDER) /\ ~MessageFound(msg)
    /\ PROVIDER_ORDER[idx] \in {OLLAMA, OPENAI, GEMINI}
    /\ ~CredentialAbsent(PROVIDER_ORDER[idx])
    /\ spinner_running' = ~DEBUG
    /\ spinner_thread' = IF DEBUG THEN "none" ELSE "alive"
    /\ attempt' = 0
    /\ sleeps' = <<>>
    /\ requests' = <<>>
    /\ last_exc' = NoExc
    /\ last_text' = <<>>
    /\ wrapper_exc' = NoExc
    /\ pc' = "call"
    /\ UNCHANGED <<idx, msg, providers_tried, calls, fate, first_success>>
    /\ UNCHANGED <<config, parsed, context, outcome, stderr, exit_code>>

\* the lambda main hands to retry_with_backoff for provider
ClientResult(provider, reply, reply2) ==
    CASE provider = OLLAMA -> call_ollama(opts.ollama_model, DEFAULT_OLLAMA_MODEL, reply)
      [] provider = OPENAI ->
            call_openai(opts.openai_model, OPENAI_MODEL, OPENAI_API_KEY, reply, reply2)
      [] provider = GEMINI -> call_gemini(DEFAULT_GEMINI_MODEL, GEMINI_API_KEY, reply)

\* call_openai sends a second request exactly after a 400 that blames temperature
SendsSecond(provider, reply) ==
    /\ provider = OPENAI
    /\ reply.kind = "http" /\ reply.code = 400 /\ reply.temp_msg
    /\ ~IsReasoningModel(OPENAI_MODEL)

\* One turn of the for loop of retry_with_backoff around the client result res:
\* "return" its text, "retry" after the backoff sleep, or "raise" exc. A sleep
\* after the last attempt ends the loop, and the wrapper raises its own error.
WrapperStep(res, n) ==
    IF res.exc = NoExc
    THEN [kind |-> "return", exc |-> NoExc, slept |-> FALSE]
    ELSE IF RetryDecision(res.exc, n) = "sleep"
    THEN IF n + 1 < MAX_RETRIES
         THEN [kind |-> "retry", exc |-> NoExc, slept |-> TRUE]
         ELSE [kind |-> "raise", exc |-> Exc("RuntimeError", 0, MAX_RETRIES_ERROR),
               slept |-> TRUE]
    ELSE [kind |-> "raise", exc |-> res.exc, slept |-> FALSE]

\* Variant: the entry carries no mark.
FailedEntry_Unmarked(provider) == provider

\* the entry of providers_tried for a provider whose call raised
FailedEntry(provider) == provider \o <<" ","(","f","a","i","l","e","d",")">>

\* The head of the warning main prints when the last provider of the order
\* fails (lines 949-950, 969-970). The line goes on with ': ' and the text of
\* the exception, which is not kept here.
CallFailedLine(provider) ==
    IF provider = OPENAI THEN <<<<"L","L","M","C","o","m","m","i","t",":"," ","O","p","e","n","A","I"," ","c","a","l","l"," ","f","a","i","l","e","d">>>>
    ELSE IF provider = GEMINI THEN <<<<"L","L","M","C","o","m","m","i","t",":"," ","G","e","m","i","n","i"," ","c","a","l","l"," ","f","a","i","l","e","d">>>>
    ELSE <<>>

\* An exception e leaves retry_with_backoff (lines 929-932, 947-952, 967-972):
\* main marks the provider failed and, for the last entry of the order, prints
\* a warning. The finally clause stops the spinner next.
RaiseToMain(e) ==
    LET provider == PROVIDER_ORDER[idx]
    IN  /\ fate' = [fate EXCEPT ![idx] = "raised"]
        /\ wrapper_exc' = e
        /\ providers_tried' = Append(providers_tried, FailedEntry(provider))
        /\ stderr' = IF provider = PROVIDER_ORDER[Len(PROVIDER_ORDER)]
                     THEN stderr \o CallFailedLine(provider)
                     ELSE stderr
        /\ pc' = "stop"

\* What the wrapper and main do with the result res of the invocation of the
\* client that is under way (lines 470-490 and 925-932, 942-952, 962-972): the text becomes msg,
\* or the wrapper asks for the backoff sleep, or the exception reaches main.
Handle(res) ==
    LET provider == PROVIDER_ORDER[idx]
        step == WrapperStep(res, attempt)
    IN  /\ requests' = res.requests
        /\ last_exc' = res.exc
        /\ last_text' = res.text
        /\ first_success' = IF first_success.pos = 0 /\ NonBlank(res.text)
                            THEN [pos |-> idx, text |-> res.text]
                            ELSE first_success
        /\ IF step.kind = "return"
           THEN /\ fate' = [fate EXCEPT ![idx] = "returned"]
                /\ msg' = res.text
                /\ providers_tried' = Append(providers_tried, provider)
                /\ pc' = "stop"
                /\ UNCHANGED <<attempt, sleeps, wrapper_exc, stderr>>
           ELSE IF step.slept
           THEN /\ sleeps' = Append(sleeps, BackoffDelay(attempt))
                /\ pc' = "sleep"
                /\ UNCHANGED <<attempt, fate, msg, providers_tried, wrapper_exc, stderr>>
           ELSE /\ RaiseToMain(step.exc)
                /\ UNCHANGED <<attempt, sleeps, msg>>

\* the answer that makes call_openai repeat its request
TemperatureReply == Reply("http", 400, TRUE, <<>>)

\* the answer of a peer that cannot be reached
Unreachable == Reply("neterror", 0, FALSE, <<>>)

\* What the provider's client has sent when it first waits in urlopen (lines
\* 523, 611, 714): its first request, or nothing when it raises before
\* (a missing credential, lines 579-580 and 681-682).
FirstSent(provider) ==
    LET sent == ClientResult(provider, Unreachable, Unreachable).requests
    IN  IF sent = <<>> THEN <<>> ELSE <<sent[1]>>

\* retry_with_backoff, line 472: the provider's client is invoked. It builds
\* its request, sends it and waits for the answer; a client that raises before
\* it sends anything ends the invocation at once.
Call ==
    /\ pc = "call"
    /\ calls' = [calls EXCEPT ![idx] = @ + 1]
    /\ LET provider == PROVIDER_ORDER[idx]
       IN  IF FirstSent(provider) = <<>>
           THEN Handle(ClientResult(provider, Unreachable, Unreachable))
           ELSE /\ requests' = FirstSent(provider)
                /\ pc' = "wait"
                /\ UNCHANGED <<last_exc, last_text, first_success, fate, msg,
                               providers_tried, attempt, sleeps, wrapper_exc, stderr>>
    /\ UNCHANGED <<config, parsed, context, outcome, exit_code, idx, spinner>>

\* The answer to the first request of the invocation arrives (urlopen returns
\* or raises). call_openai, told that the model does not support temperature,
\* prints a line, sends a second request (lines 630-639) and waits for its
\* answer; every other answer ends the invocation.
Answer ==
    /\ pc = "wait"
    /\ LET provider == PROVIDER_ORDER[idx]
       IN  \E reply \in Replies :
              IF SendsSecond(provider, reply)
              THEN /\ requests' = ClientResult(provider, reply, reply).requests
                   /\ stderr' = Append(stderr, <<"L","L","M","C","o","m","m","i","t",":"," ","M","o","d","e","l"," ">> \o OPENAI_MODEL
                                    \o <<" ","d","o","e","s"," ","n","o","t"," ","s","u","p","p","o","r","t"," ","t","e","m","p","e","r","a","t","u","r","e",","," ","r","e","t","r","y","i","n","g"," ","w","i","t","h","o","u","t"," ","i","t",".">>)
                   /\ pc' = "call2"
                   /\ UNCHANGED <<last_exc, last_text, first_success, fate, msg,
                                  providers_tried, attempt, sleeps, wrapper_exc>>
              ELSE Handle(ClientResult(provider, reply, reply))
    /\ UNCHANGED calls
    /\ UNCHANGED <<config, parsed, context, outcome, exit_code, idx, spinner>>

\* call_openai, lines 639-648: the answer to the request repeated without
\* temperature ends the invocation
Call2 ==
    /\ pc = "call2"
    /\ \E reply2 \in Replies :
          Handle(ClientResult(PROVIDER_ORDER[idx], TemperatureReply, reply2))
    /\ UNCHANGED calls
    /\ UNCHANGED <<config, parsed, context, outcome, exit_code, idx, spinner>>

\* retry_with_backoff, lines 479 and 487, then the for statement: time.sleep
\* returns and the loop goes on with the next attempt; after the last attempt
\* the wrapper raises its own error (line 490)
Sleep ==
    /\ pc = "sleep"
    /\ IF attempt + 1 < MAX_RETRIES
       THEN /\ attempt' = attempt + 1
            /\ pc' = "call"
            /\ UNCHANGED <<fate, wrapper_exc, providers_tried, stderr>>
       ELSE /\ RaiseToMain(Exc("RuntimeError", 0, MAX_RETRIES_ERROR))
            /\ UNCHANGED attempt
    /\ UNCHANGED <<calls, requests, last_exc, last_text, first_success, msg, sleeps>>
    /\ UNCHANGED <<config, parsed, context, outcome, exit_code, idx, spinner>>

\* Variant: stop does not wait for the thread.
Stop_NoJoin ==
    /\ pc = "stop"
    /\ spinner_running' = FALSE
    /\ pc' = "loop"
    /\ idx' = idx + 1
    /\ UNCHANGED <<msg, providers_tried, attempt, sleeps, wrapper_exc, spinner_thread,
                   history>>
    /\ UNCHANGED <<config, parsed, context, outcome, stderr, exit_code>>

\* Spinner.stop, lines 121-125, in the finally clause of main: nothing to do
\* when the spinner does not run, else running is cleared and the thread joined
Stop ==
    /\ pc = "stop"
    /\ IF ~spinner_running
       THEN /\ pc' = "loop"
            /\ idx' = idx + 1
            /\ UNCHANGED spinner
       ELSE /\ spinner_running' = FALSE
            /\ pc' = "join"
            /\ UNCHANGED <<idx, spinner_thread>>
    /\ UNCHANGED <<msg, providers_tried, attempt, sleeps, wrapper_exc, history>>
    /\ UNCHANGED <<config, parsed, context, outcome, stderr, exit_code>>

\* Spinner.stop, lines 126-130: join returns once the thread has ended; the
\* line is cleared and the for loop of main goes on
Join ==
    /\ pc = "join"
    /\ spinner_thread = "dead"
    /\ spinner_thread' = "joined"
    /\ pc' = "loop"
    /\ idx' = idx + 1
    /\ UNCHANGED <<msg, providers_tried, attempt, sleeps, wrapper_exc, spinner_running,
                   history>>
    /\ UNCHANGED <<config, parsed, context, outcome, stderr, exit_code>>

\* Spinner._spin, lines 132-139, in its thread: one test of the while loop.
\* It draws a frame and sleeps while running holds, and returns when not.
Spin ==
    /\ spinner_thread = "alive"
    /\ spinner_thread' = IF spinner_running THEN "alive" ELSE "dead"
    /\ UNCHANGED <<idx, msg, providers_tried, attempt, sleeps, wrapper_exc,
                   spinner_running, history>>
    /\ UNCHANGED <<config, parsed, context, outcome, pc, stderr, exit_code>>

\* ", ".join(items)
RECURSIVE JoinComma(_)
JoinComma(items) ==
    IF items = <<>> THEN <<>>
    ELSE IF Len(items) = 1 THEN items[1]
    ELSE items[1] \o <<","," ">> \o JoinComma(Tail(items))

ALL_FAILED == <<"L","L","M","C","o","m","m","i","t",":"," ","A","l","l"," ","p","r","o","v","i","d","e","r","s"," ","f","a","i","l","e","d","."," ","T","r","i","e","d",":"," ">>

NORMALIZE_FAILED == <<"L","L","M","C","o","m","m","i","t",":"," ","f","a","i","l","e","d"," ","t","o"," ","g","e","n","e","r","a","t","e"," ","a"," ","c","o","m","m","i","t"," ","m","e","s","s","a","g","e",".">>

\* Variant: an empty normalized message ends main with status 0.
AfterLoop_ExitsZero ==
    /\ pc = "after"
    /\ IF ~NonBlank(msg)
       THEN /\ Exit(3, ALL_FAILED \o JoinComma(providers_tried))
            /\ UNCHANGED msg
       ELSE /\ msg' = normalize_message(msg)
            /\ IF normalize_message(msg) = <<>>
               THEN Exit(0, NORMALIZE_FAILED)
               ELSE /\ pc' = IF review_mode THEN "review" ELSE "commit"
                    /\ UNCHANGED <<stderr, exit_code>>
    /\ UNCHANGED <<idx, providers_tried, attempt, sleeps, wrapper_exc, spinner,
                   history>>
    /\ UNCHANGED <<config, parsed, context, outcome>>

\* main, lines 976-988: exhaustion, or normalization of the message
AfterLoop ==
    /\ pc = "after"
    /\ IF ~NonBlank(msg)
       THEN /\ Exit(3, ALL_FAILED \o JoinComma(providers_tried))
            /\ UNCHANGED msg
       ELSE /\ msg' = normalize_message(msg)
            /\ IF normalize_message(msg) = <<>>
               THEN Exit(3, NORMALIZE_FAILED)
               ELSE /\ pc' = IF review_mode THEN "review" ELSE "commit"
                    /\ UNCHANGED <<stderr, exit_code>>
    /\ UNCHANGED <<idx, providers_tried, attempt, sleeps, wrapper_exc, spinner,
                   history>>
    /\ UNCHANGED <<config, parsed, context, outcome>>

\* what the user leaves in the editor's file
EditedTexts == {<<>>, <<"E","d","i","t","e","d","\n">>}

\* main, lines 991-1010: --review. The editor fails with the exception text
\* err and the message stays, or the file's text, stripped, replaces it; an
\* empty message aborts with 1.
Review ==
    /\ pc = "review"
    /\ \E failed \in BOOLEAN, edited \in EditedTexts :
       \E err \in {<<"[","E","r","r","n","o"," ","2","]"," ","N","o"," ","s","u","c","h"," ","f","i","l","e"," ","o","r"," ","d","i","r","e","c","t","o","r","y",":"," ","'","v","i","'">>,
                   <<"C","o","m","m","a","n","d"," ","'","[","'","v","i","'",","," ","'","/","t","m","p","/","t","m","p","a","b","1","2",".","t","x","t","'","]","'"," ","r","e","t","u","r","n","e","d"," ","n","o","n","-","z","e","r","o"," ","e","x","i","t"," ","s","t","a","t","u","s"," ","1",".">>} :
          LET m == IF failed THEN msg ELSE Strip(edited)
              lines == IF failed
                       THEN <<<<"L","L","M","C","o","m","m","i","t",":"," ","F","a","i","l","e","d"," ","t","o"," ","o","p","e","n"," ","e","d","i","t","o","r",":"," ">> \o err>> ELSE <<>>
          IN  /\ msg' = m
              /\ IF m = <<>>
                 THEN /\ stderr' = stderr \o lines
                                       \o <<<<"L","L","M","C","o","m","m","i","t",":"," ","C","o","m","m","i","t"," ","m","e","s","s","a","g","e"," ","e","m","p","t","y",","," ","a","b","o","r","t","i","n","g",".">>>>
                      /\ exit_code' = 1
                      /\ pc' = "done"
                 ELSE /\ pc' = "commit"
                      /\ stderr' = stderr \o lines
                      /\ UNCHANGED exit_code
    /\ UNCHANGED <<idx, providers_tried, attempt, sleeps, wrapper_exc, spinner,
                   history>>
    /\ UNCHANGED <<config, parsed, context, outcome>>

\* main, lines 1012-1022: the message tokens are appended and git commit runs
Commit ==
    /\ pc = "commit"
    /\ RunCommit(git_args \o message_to_git_m_args(msg))
    /\ UNCHANGED <<config, parsed, context, pipeline>>

Next ==
    \/ LoadConfig
    \/ Start
    \/ AddAll
    \/ Autogen
    \/ BuildContext
    \/ LoopEnds
    \/ Skip
    \/ Enter
    \/ Call
    \/ Answer
    \/ Call2
    \/ Sleep
    \/ Stop
    \/ Join
    \/ Spin
    \/ AfterLoop
    \/ Review
    \/ Commit

Spec == Init /\ [][Next]_vars


\* main after the first provider of the order, the local server, has answered
\* its first request with a raw text
InitNormalize ==
    /\ user_config = NoUserConfig
    /\ argv = <<>>
    /\ repo = GoodRepo
    /\ PROVIDER_ORDER = <<OLLAMA>>
    /\ OPENAI_API_KEY = <<>>
    /\ GEMINI_API_KEY = <<>>
    /\ OPENAI_MODEL = DEFAULT_OPENAI_MODEL
    /\ DEBUG = FALSE
    /\ pc = "after"
    /\ opts = split_lang_arg(<<>>)
    /\ git_args = <<>>
    /\ review_mode = FALSE
    /\ ctx = build_git_context(<<>>, MaxChars, TRUE, GitAnswer("name-status", TRUE),
                               GitAnswer("diff", TRUE), GitAnswer("status", TRUE))
    /\ ns_cmd = NsCmd(<<>>, TRUE)
    /\ diff_cmd = DiffCmd(<<>>, TRUE)
    /\ idx = 2
    /\ providers_tried = <<OLLAMA>>
    /\ attempt = 0
    /\ sleeps = <<>>
    /\ calls = <<1>>
    /\ last_exc = NoExc
    /\ fate = <<"returned">>
    /\ wrapper_exc = NoExc
    /\ spinner_running = FALSE
    /\ spinner_thread = "joined"
    /\ stderr = <<>>
    /\ commit_args = <<>>
    /\ committed = FALSE
    /\ pushed = FALSE
    /\ exit_code = -1
    /\ \E raw \in RawTexts :
          LET res == call_ollama(split_lang_arg(<<>>).ollama_model, DEFAULT_OLLAMA_MODEL,
                                 Reply("ok", 0, FALSE, <<raw>>))
          IN  /\ requests = res.requests
              /\ last_text = res.text
              /\ msg = res.text
              /\ first_success = [pos |-> 1, text |-> res.text]

\* main from the end of the provider loop on: normalization and git commit
NextNormalize ==
    \/ AfterLoop
    \/ Commit

SpecNormalize == InitNormalize /\ [][NextNormalize]_vars

\* every provider order, with and without review of the message, with the
\* credential of hosted API A only
InitSpinner ==
    /\ user_config = NoUserConfig
    /\ argv \in {<<>>, <<<<"-","-","r","e","v","i","e","w">>>>}
    /\ repo = GoodRepo
    /\ PROVIDER_ORDER \in Orders
    /\ OPENAI_API_KEY = <<"k">>
    /\ GEMINI_API_KEY = <<>>
    /\ OPENAI_MODEL = DEFAULT_OPENAI_MODEL
    /\ DEBUG \in BOOLEAN
    /\ DEBUG => Len(PROVIDER_ORDER) <= 1

InitLive == InitSpinner /\ InitRun

\* The spinner thread keeps being scheduled (its sleep of 0.1 s returns), and
\* the main thread goes on through stop and join.
SpecLive == InitLive /\ [][Next]_vars /\ WF_vars(Spin) /\ WF_vars(Stop) /\ WF_vars(Join)

\* the provider orders of up to three entries (an unknown name in those of up to
\* two), with both credentials set; with review of the message for the orders
\* of one entry
InitPipeline ==
    /\ user_config = NoUserConfig
    /\ argv \in {<<>>, <<<<"-","-","r","e","v","i","e","w">>>>}
    /\ repo = GoodRepo
    /\ PROVIDER_ORDER \in {q \in Orders : Len(q) <= 3 /\ (HasToken(q, UNKNOWN) => Len(q) <= 2)}
    /\ argv # <<>> => Len(PROVIDER_ORDER) = 1
    /\ OPENAI_API_KEY = <<"k">>
    /\ GEMINI_API_KEY = <<"k">>
    /\ OPENAI_MODEL = DEFAULT_OPENAI_MODEL
    /\ DEBUG = FALSE

InitTerminates == InitPipeline /\ InitRun

\* The main thread goes on: a client invocation returns or raises (every
\* request has a timeout), a backoff sleep returns; and the spinner thread
\* keeps being scheduled. The last three conjuncts are WF_vars(Call),
\* WF_vars(Answer) and WF_vars(Call2) with ENABLED written out: Call is
\* enabled exactly at pc = "call", Answer at pc = "wait" and Call2 at
\* pc = "call2".
SpecTerminates ==
    /\ InitTerminates /\ [][Next]_vars
    /\ WF_vars(LoopEnds) /\ WF_vars(Skip) /\ WF_vars(Enter)
    /\ WF_vars(Stop) /\ WF_vars(Join) /\ WF_vars(Spin) /\ WF_vars(Sleep)
    /\ ([]<>(pc # "call") \/ []<><<Call>>_vars)
    /\ ([]<>(pc # "wait") \/ []<><<Answer>>_vars)
    /\ ([]<>(pc # "call2") \/ []<><<Call2>>_vars)

\* ------------------------------------------------------------ properties

Positions == 1..Len(PROVIDER_ORDER)

\* the position retry_with_backoff was last entered for (0: none so far)
Cur ==
    IF pc \in {"call", "wait", "call2", "sleep"} THEN idx
    ELSE MaxOf({0} \cup {i \in Positions : fate[i] \in {"returned", "raised"}})

\* the wrapper was entered for position Cur and has been left
WrapperLeft == Cur # 0 /\ pc \notin {"call", "wait", "call2", "sleep"}

\* the for loop of main has been left
PipelineOver == pc \in {"after", "review", "commit"} \/ (pc = "done" /\ ctx.ok)

\* the last line main printed
LastLine == IF stderr = <<>> THEN <<>> ELSE stderr[Len(stderr)]

\* main ended with the exhaustion error
Exhausted ==
    /\ pc = "done"
    /\ exit_code = 3
    /\ StartsWith(LastLine, <<"L","L","M","C","o","m","m","i","t",":"," ","A","l","l"," ","p","r","o","v","i","d","e","r","s"," ","f","a","i","l","e","d",".">>)

\* C1: providers are invoked one at a time in the configured order, and the
\* pipeline stops at the first one that returns text that is not blank: no
\* position beyond the current one has been invoked, every position before
\* it has been dealt with, once a provider has returned such text it is the
\* result and no later position is ever invoked, and the loop is left
\* without a result only after every entry of the order has been dealt with
\* (a provider's failure does not end the pipeline).
C1_FirstSuccessStopsPipeline ==
    /\ \A j \in Positions : j > idx => calls[j] = 0 /\ fate[j] = "none"
    /\ \A j \in Positions : j < idx => fate[j] # "none"
    /\ pc \in {"call", "wait", "call2", "sleep"} => idx \in Positions /\ fate[idx] = "none"
    /\ first_success.pos # 0 =>
          /\ \A j \in Positions :
                j > first_success.pos => calls[j] = 0 /\ fate[j] = "none"
          /\ pc \in {"loop", "after"} => msg = first_success.text
          /\ fate[first_success.pos] = "returned"
    /\ PipelineOver /\ first_success.pos = 0 => \A j \in Positions : fate[j] # "none"
    /\ (pc \in {"review", "commit"} \/ (committed /\ ctx.ok)) => first_success.pos # 0

\* order [A, B, C]: A failed, B returned text, C was never invoked
C1_Witness ==
    /\ Len(PROVIDER_ORDER) = 3
    /\ pc = "after"
    /\ fate[1] = "raised"
    /\ first_success.pos = 2
    /\ NonBlank(msg) /\ msg = first_success.text
    /\ calls[3] = 0

\* C2: when every provider of the order was invoked and failed, main ends
\* with exit code 3 and its last line is the exhaustion error listing exactly
\* the providers of the order, in order, each marked failed; git commit is
\* not run.
C2_AllInvokedFailed ==
    (Positions # {} /\ \A i \in Positions : fate[i] = "raised") =>
        /\ pc \in {"stop", "join", "loop", "after", "done"}
        /\ ~committed /\ commit_args = <<>> /\ ~pushed
        /\ ~NonBlank(msg)
        /\ pc = "done" =>
              /\ exit_code = 3
              /\ LastLine = <<"L","L","M","C","o","m","m","i","t",":"," ","A","l","l"," ","p","r","o","v","i","d","e","r","s"," ","f","a","i","l","e","d","."," ","T","r","i","e","d",":"," ">>
                            \o JoinComma([i \in Positions |->
                                              PROVIDER_ORDER[i] \o <<" ","(","f","a","i","l","e","d",")">>])

\* order [A, B]: both were invoked, both failed
C2_Witness ==
    /\ Len(PROVIDER_ORDER) = 2
    /\ \A i \in Positions : fate[i] = "raised" /\ calls[i] > 0
    /\ pc = "done" /\ exit_code = 3

\* C3: when the pipeline is exhausted, the terminal error names every provider
\* of the configured order with its outcome: a skipped provider is listed as
\* skipped, a failed one as failed, and a provider that returned empty text is
\* not listed like one that succeeded (by its bare name).
C3_ErrorNamesEveryProvider ==
    Exhausted =>
        /\ Len(providers_tried) = Len(PROVIDER_ORDER)
        /\ \A i \in Positions :
              /\ fate[i] = "skipped" =>
                    \E k \in 1..Len(providers_tried) :
                        /\ StartsWith(providers_tried[k], PROVIDER_ORDER[i])
                        /\ Contains(providers_tried[k], <<"s","k","i","p","p","e","d">>)
              /\ fate[i] = "raised" =>
                    \E k \in 1..Len(providers_tried) :
                        /\ StartsWith(providers_tried[k], PROVIDER_ORDER[i])
                        /\ Contains(providers_tried[k], <<"f","a","i","l","e","d">>)
              /\ fate[i] = "returned" =>
                    \A k \in 1..Len(providers_tried) :
                        providers_tried[k] # PROVIDER_ORDER[i]

\* an HTTP client error other than 429, or a response the client cannot use
ProviderFatal(e) ==
    \/ e.cls = "HTTPError" /\ e.code \in 400..499 /\ e.code # 429
    \/ e.cls \in {"ValueError", "RuntimeError"} /\ e.what # RATE_LIMIT_ERROR

\* C4: a provider-fatal error of the wrapped call (an HTTP 4xx other than 429,
\* or a malformed response) leaves the wrapper on the first attempt: the call
\* was made once, nothing was slept, the provider is marked failed and the
\* loop has moved on.
C4_FatalErrorNotRetried ==
    (Cur # 0 /\ ProviderFatal(last_exc)) =>
        /\ pc \notin {"call", "wait", "call2", "sleep"}
        /\ calls[Cur] = 1
        /\ sleeps = <<>>
        /\ fate[Cur] = "raised"
        /\ pc \notin {"stop", "join"} => idx > Cur

\* C5: a call that fails with a network error is made again until it succeeds
\* or 3 invocations have been made; the wrapper sleeps 1 s after the first
\* failure and 2 s after the second and never after the last attempt; the
\* text of the first successful attempt is what the wrapper returns, with no
\* invocation after it.
C5_NetworkErrorRetried ==
    /\ sleeps \in {<<>>, <<1>>, <<1, 2>>}
    /\ Cur # 0 =>
          /\ calls[Cur] <= 3
          /\ calls[Cur] = Len(sleeps) + (IF pc \in {"call", "sleep"} THEN 0 ELSE 1)
          /\ last_exc.cls = "URLError" =>
                IF pc \in {"call", "sleep"}
                THEN calls[Cur] \in {1, 2}
                ELSE IF pc \in {"wait", "call2"}
                THEN calls[Cur] \in {2, 3}
                ELSE calls[Cur] = 3 /\ sleeps = <<1, 2>> /\ fate[Cur] = "raised"
          /\ fate[Cur] = "returned" =>
                /\ last_exc = NoExc
                /\ pc \in {"loop", "after"} => msg = last_text

\* three network errors in a row: 1 s and 2 s were slept, then the wrapper gave up
C5_Witness ==
    /\ WrapperLeft
    /\ last_exc.cls = "URLError"
    /\ calls[Cur] = 3
    /\ sleeps = <<1, 2>>
    /\ fate[Cur] = "raised"

\* the last response to the provider's request was HTTP 429
RateLimited(e) ==
    \/ e.cls = "HTTPError" /\ e.code = 429
    \/ e.cls = "RuntimeError" /\ e.what = RATE_LIMIT_ERROR

\* C6: an HTTP 429 from any provider is retried like a network error: the
\* provider is marked failed only after 3 invocations, with sleeps of 1 s and
\* 2 s between them.
C6_RateLimitRetried ==
    (WrapperLeft /\ RateLimited(last_exc)) =>
        /\ calls[Cur] = 3
        /\ sleeps = <<1, 2>>
        /\ fate[Cur] = "raised"

\* a network error or a rate limit
Retryable(e) ==
    \/ e.cls = "URLError"
    \/ e.cls = "HTTPError" /\ e.code = 429

\* C7 (as stated): when all 3 attempts of a wrapped call fail with retryable errors, the
\* exception that leaves the wrapper is the error 'Max retries exceeded'.
C7_MaxRetriesExceededRaised ==
    (WrapperLeft /\ fate[Cur] = "raised" /\ calls[Cur] = 3
        /\ (last_exc.cls = "URLError" \/ (last_exc.cls = "HTTPError" /\ last_exc.code = 429)))
    => wrapper_exc = Exc("RuntimeError", 0, <<"M","a","x"," ","r","e","t","r","i","e","s"," ","e","x","c","e","e","d","e","d">>)

\* all 3 attempts of the call at position Cur failed, the last with a
\* retryable error, and the wrapper has been left
RetriesExhausted ==
    WrapperLeft /\ fate[Cur] = "raised" /\ calls[Cur] = 3 /\ Retryable(last_exc)

\* C7 (amended): when all 3 attempts of a wrapped call fail with retryable
\* errors, the exception that leaves the wrapper is the one the last attempt
\* raised; the error 'Max retries exceeded' never leaves the wrapper.
C7_LastErrorReraised ==
    /\ RetriesExhausted => wrapper_exc = last_exc /\ wrapper_exc.cls # "RuntimeError"
    /\ wrapper_exc.what # <<"M","a","x"," ","r","e","t","r","i","e","s"," ","e","x","c","e","e","d","e","d">>

\* three rate-limit responses in a row: the HTTPError of the third leaves the wrapper
C7_Witness ==
    /\ RetriesExhausted
    /\ last_exc.cls = "HTTPError" /\ last_exc.code = 429
    /\ wrapper_exc = last_exc

\* the entry at position i needs a credential that is not set
NeedsAbsentCredential(i) ==
    \/ PROVIDER_ORDER[i] = <<"o","p","e","n","a","i">> /\ OPENAI_API_KEY = <<>>
    \/ PROVIDER_ORDER[i] = <<"g","e","m","i","n","i">> /\ GEMINI_API_KEY = <<>>

\* the entry at position i names no provider main knows
Unrecognised(i) == PROVIDER_ORDER[i] \notin {<<"o","l","l","a","m","a">>, <<"o","p","e","n","a","i">>, <<"g","e","m","i","n","i">>}

\* C8: a provider whose credential is absent, or whose name is not recognised,
\* is skipped: its client is never invoked (so nothing is retried) and the
\* loop goes on with the next entry, to the end of the order if no provider
\* succeeds.  Only such entries are skipped; ollama needs no credential and is
\* invoked whenever the loop reaches it, which it does unless an earlier
\* provider has succeeded.
C8_SkippedWithoutCall ==
    \A i \in Positions :
        /\ (NeedsAbsentCredential(i) \/ Unrecognised(i)) =>
              /\ calls[i] = 0
              /\ fate[i] \in {"none", "skipped"}
              /\ i < idx => fate[i] = "skipped"
        /\ fate[i] = "skipped" => NeedsAbsentCredential(i) \/ Unrecognised(i)
        /\ (fate[i] = "skipped" /\ PipelineOver /\ first_success.pos = 0) =>
              \A j \in Positions : j > i => fate[j] # "none"
        /\ PROVIDER_ORDER[i] = <<"o","l","l","a","m","a">> =>
              /\ i < idx => calls[i] >= 1
              /\ (PipelineOver /\ first_success.pos \in {0} \cup (i..Len(PROVIDER_ORDER)))
                    => calls[i] >= 1

\* an entry was skipped and ollama, later in the order, was invoked
C8_Witness ==
    \E i, j \in Positions :
        /\ i < j
        /\ fate[i] = "skipped" /\ calls[i] = 0
        /\ PROVIDER_ORDER[j] = <<"o","l","l","a","m","a">> /\ calls[j] >= 1

\* build_git_context has run
ContextAttempted == ns_cmd # <<>>

\* the diff git answered for the scope of the commit, after redaction
RedactedDiff ==
    sanitize_text(GitAnswer("diff", repo.has_head /\ IncludeWorktree(git_args)).out)

\* build_git_context has just returned or raised (ctx, repo and git_args do
\* not change afterwards)
ContextJustBuilt == ContextAttempted /\ (~ctx.ok \/ (pc = "loop" /\ idx = 1))

\* C9: when its git queries succeed, build_git_context succeeds exactly if the
\* redacted diff is not empty; a context that was built has a diff section
\* that is not empty; on an empty diff it raises the 'No changes detected'
\* error, which names both remedies (use -a, stage changes first), and no
\* context is returned.
C9_ContextIffDiff ==
    /\ (ContextAttempted /\ ctx.ok) => ctx.diff # <<>>
    /\ (ContextJustBuilt /\ ctx.ok) =>
          NonBlank(ctx.diff) /\ Contains(ctx.text, ctx.diff)
    /\ (ContextJustBuilt /\ repo.fails = "none") =>
          /\ ctx.ok <=> RedactedDiff # <<>>
          /\ ~ctx.ok =>
                /\ StartsWith(ctx.error, <<"N","o"," ","c","h","a","n","g","e","s"," ","d","e","t","e","c","t","e","d">>)
                /\ Contains(ctx.error, <<"u","s","e"," ","-","a">>)
                /\ Contains(ctx.error, <<"s","t","a","g","e"," ","c","h","a","n","g","e","s"," ","f","i","r","s","t">>)
                /\ ctx.text = <<>> /\ ctx.diff = <<>>
                /\ pc = "done" /\ LastLine = <<"L","L","M","C","o","m","m","i","t",":"," ">> \o ctx.error

\* nothing is staged: the construction failed with the 'No changes' error
C9_Witness ==
    /\ ContextAttempted
    /\ repo.fails = "none"
    /\ RedactedDiff = <<>>
    /\ ~ctx.ok
    /\ StartsWith(ctx.error, <<"N","o"," ","c","h","a","n","g","e","s"," ","d","e","t","e","c","t","e","d">>)

\* not inside a repository, or build_git_context raised
PreconditionFailed ==
    \/ pc \notin {"load", "start"} /\ ~repo.inside
    \/ ContextAttempted /\ ~ctx.ok

\* C10: a precondition failure (not inside a repository, a git query that
\* fails, no changes) ends main at once with exit code 2: no provider is
\* invoked, nothing is retried or slept, git commit and git push are not run.
C10_PreconditionAborts ==
    PreconditionFailed =>
        /\ pc = "done"
        /\ exit_code = 2
        /\ \A i \in Positions : calls[i] = 0 /\ fate[i] = "none"
        /\ attempt = 0 /\ sleeps = <<>>
        /\ ~committed /\ commit_args = <<>> /\ ~pushed

\* no changes and no -a: main ended with 2
C10_Witness ==
    /\ ContextAttempted
    /\ ~IncludeWorktree(git_args)
    /\ repo.staged = <<>>
    /\ ctx.error = NO_CHANGES_ERROR
    /\ pc = "done" /\ exit_code = 2

\* C11: every end of main follows the exit-code protocol: 0 only when git
\* commit ran; 2 for every precondition failure (not a repository, context
\* not built, an option given without its value); 3 when the providers are
\* exhausted or the normalized message is unusable; otherwise, with git
\* commit run, the code of git commit / git push.  So a run that ends without
\* git commit ends with 2 or 3.
C11_ExitCodeProtocol ==
    pc = "done" =>
        /\ exit_code = 0 => committed
        /\ ~committed => exit_code \in {2, 3}
        /\ (repo.inside /\ split_lang_arg(argv).error) => exit_code = 2
        /\ (~repo.inside \/ (ContextAttempted /\ ~ctx.ok)) => exit_code = 2
        /\ (PipelineOver /\ ~committed) => exit_code = 3

\* s ends with lit
EndsWith(s, lit) ==
    Len(lit) <= Len(s) /\ Slice(s, Len(s) - Len(lit) + 1, Len(s)) = lit

\* the line that opens the diff section of the context
DIFF_HEADING == <<"D","i","f","f"," ","o","f"," ","w","h","a","t"," ","w","i","l","l"," ","b","e"," ","c","o","m","m","i","t","t","e","d",":","\n">>

\* t is r without the white space r begins and ends with
IsStrippedOf(t, r) ==
    \E a \in 0..Len(r) :
        /\ a + Len(t) <= Len(r)
        /\ t = Slice(r, a + 1, a + Len(t))
        /\ \A k \in (1..a) \cup ((a + Len(t) + 1)..Len(r)) : r[k] \in WS
        /\ t # <<>> => t[1] \notin WS /\ t[Len(t)] \notin WS

\* C12 (as stated): for a redacted diff shorter than the cap, the diff section
\* of the context (what follows its heading) is the redacted diff verbatim,
\* and no truncation marker is present.
C12_SectionVerbatim ==
    (ContextJustBuilt /\ ctx.ok /\ Len(RedactedDiff) < MaxChars) =>
        /\ EndsWith(ctx.text, DIFF_HEADING \o RedactedDiff)
        /\ ~Contains(ctx.text, <<"[","D","I","F","F"," ","T","R","U","N","C","A","T","E","D","]">>)

\* C12 (amended): for a redacted diff shorter than the cap, the diff section
\* of the context is the redacted diff without its leading and trailing white
\* space, followed by one line break, and no truncation marker is present.
C12_SectionStripped ==
    (ContextJustBuilt /\ ctx.ok /\ Len(RedactedDiff) < MaxChars) =>
        /\ IsStrippedOf(ctx.diff, RedactedDiff)
        /\ EndsWith(ctx.text, DIFF_HEADING \o ctx.diff \o <<"\n">>)
        /\ ~Contains(ctx.text, <<"[","D","I","F","F"," ","T","R","U","N","C","A","T","E","D","]">>)

\* a diff below the cap that ends with an empty context line: the section
\* is shorter than the diff
C12_Witness ==
    /\ ContextJustBuilt /\ ctx.ok
    /\ Len(RedactedDiff) < MaxChars
    /\ EndsWith(RedactedDiff, <<" ","\n">>)
    /\ Len(ctx.diff) < Len(RedactedDiff) - 1

\* C13: for a redacted diff longer than the cap, the diff section of the
\* context is the first MaxChars characters of the redacted diff followed by
\* the marker '[DIFF TRUNCATED]' (set off by an empty line); it is never
\* longer than the cap plus the marker; and whenever the section lacks
\* characters of the diff other than white space at its ends, the marker is
\* there.
C13_TruncatedWithMarker ==
    (ContextJustBuilt /\ ctx.ok) =>
        /\ Len(RedactedDiff) > MaxChars =>
              /\ EndsWith(ctx.text, DIFF_HEADING \o Slice(RedactedDiff, 1, MaxChars)
                                        \o <<"\n","\n","[","D","I","F","F"," ","T","R","U","N","C","A","T","E","D","]","\n">>)
              /\ ctx.diff = Slice(RedactedDiff, 1, MaxChars) \o <<"\n","\n","[","D","I","F","F"," ","T","R","U","N","C","A","T","E","D","]">>
              /\ Len(ctx.diff) <= MaxChars + Len(<<"\n","\n","[","D","I","F","F"," ","T","R","U","N","C","A","T","E","D","]","\n">>)
        /\ ~IsStrippedOf(ctx.diff, RedactedDiff) => EndsWith(ctx.diff, <<"[","D","I","F","F"," ","T","R","U","N","C","A","T","E","D","]">>)

\* a diff above the cap was cut and marked
C13_Witness ==
    /\ ContextJustBuilt /\ ctx.ok
    /\ Len(RedactedDiff) > MaxChars
    /\ EndsWith(ctx.diff, <<"[","D","I","F","F"," ","T","R","U","N","C","A","T","E","D","]">>)
    /\ Len(ctx.diff) = MaxChars + 18

\* C14: redaction is idempotent: redacting the redacted diff changes nothing.
C14_RedactionIdempotent ==
    ContextJustBuilt => sanitize_text(RedactedDiff) = RedactedDiff

\* the diff git answered for the scope of the commit
RawDiff == GitAnswer("diff", repo.has_head /\ IncludeWorktree(git_args)).out

\* C15: for a diff that holds a private-key block, the context that was built
\* holds '[REDACTED]' where the block was: neither the key material nor the
\* string '-----BEGIN' occurs anywhere in the context.
C15_PrivateKeyRedacted ==
    (ContextJustBuilt /\ ctx.ok
        /\ Contains(RawDiff, <<"-","-","-","-","-","B","E","G","I","N"," ","R","S","A"," ","P","R","I","V","A","T","E"," ","K","E","Y","-","-","-","-","-">>)
        /\ Contains(RawDiff, <<"-","-","-","-","-","E","N","D"," ","R","S","A"," ","P","R","I","V","A","T","E"," ","K","E","Y","-","-","-","-","-">>)) =>
            /\ Contains(ctx.text, DIFF_HEADING \o <<"d","i","f","f","\n","+","[","R","E","D","A","C","T","E","D","]","\n">>)
            /\ ~Contains(ctx.text, <<"-","-","-","-","-","B","E","G","I","N">>)
            /\ ~Contains(ctx.text, <<"M","I","I","E","p","A">>)
            /\ ~Contains(ctx.text, <<"P","R","I","V","A","T","E"," ","K","E","Y">>)

\* the context of a commit that adds a private key has been built
C15_Witness ==
    /\ ContextJustBuilt /\ ctx.ok
    /\ Contains(RawDiff, <<"-","-","-","-","-","B","E","G","I","N"," ","R","S","A"," ","P","R","I","V","A","T","E"," ","K","E","Y","-","-","-","-","-","\n","+","M","I","I","E","p","A","\n","+","-","-","-","-","-","E","N","D"," ","R","S","A"," ","P","R","I","V","A","T","E"," ","K","E","Y","-","-","-","-","-">>)
    /\ Contains(ctx.diff, <<"[","R","E","D","A","C","T","E","D","]">>)

\* ---- the normalizer ----

\* the first line of a text: what stands before its first line break
FirstLine(s) == Slice(s, 1, RunLenNot(s, 1, LineBreaks))

\* the normalized message is in msg
Normalized == pc = "commit" \/ (pc = "done" /\ committed)

\* C16: whatever text the provider returned, the first line of the normalized
\* message, and the subject handed to git commit, have at most 72 characters.
C16_SubjectAtMost72 ==
    /\ Normalized => Len(FirstLine(msg)) <= 72
    /\ (committed /\ first_success.pos > 0) => Len(commit_args[Len(git_args) + 2]) <= 72

\* a raw text whose first line is longer than 72 characters has been normalized
C16_Witness ==
    /\ Normalized /\ committed
    /\ Len(FirstLine(first_success.text)) > 72
    /\ Len(FirstLine(msg)) \in 1..72
    /\ commit_args[2] = FirstLine(msg)

\* the subject of an unwrapped raw text, and the subject after normalization
RawSubject == FirstLine(first_success.text)

Unwrapped == first_success.text # <<>> /\ first_success.text[1] \notin {Backtick, "\"", "'"}

\* the subject sub is cut nowhere inside a word of the subject s it is a prefix of
EndsOnWordBoundary(sub, s) ==
    /\ Len(sub) <= Len(s) /\ sub = Prefix(s, Len(sub))
    /\ (sub # <<>> /\ Len(sub) < Len(s)) =>
           ~(sub[Len(sub)] \in WordChar /\ s[Len(sub) + 1] \in WordChar)

\* C17: a subject longer than 72 characters with a whitespace character inside
\* its first 72 is cut at the end of a word, never in the middle of one, and
\* the cut subject ends in no space, comma, semicolon, colon or hyphen.
C17_CutAtWhitespace ==
    (/\ Normalized /\ Unwrapped
     /\ Len(RawSubject) > 72
     /\ \E k \in 2..72 : RawSubject[k] \in WS)
        => /\ EndsOnWordBoundary(FirstLine(msg), RawSubject)
           /\ FirstLine(msg) # <<>> =>
                  FirstLine(msg)[Len(FirstLine(msg))] \notin {" ", ",", ";", ":", "-"}

\* the raw text is a fenced code block: a fence line first, a fence line last
IsFenced ==
    /\ StartsAt(first_success.text, 1, FENCE)
    /\ EndsWith(first_success.text, <<"\n">> \o FENCE)

\* the first line inside the wrapper: what follows the first line break
InteriorSubject ==
    LET raw == first_success.text
        nl == MinOf({q \in 1..Len(raw) : raw[q] = "\n"})
    IN  FirstLine(Slice(raw, nl + 1, Len(raw)))

\* C18: of a raw text wrapped in a fenced code block the normalized message
\* keeps neither fence line, and its subject is the first line inside the
\* wrapper, clipped to 72 characters; the fenced "Fix bug", blank line,
\* "- corrected off-by-one" is committed with -m "Fix bug" -m "- corrected
\* off-by-one".
C18_FenceRemoved ==
    /\ (Normalized /\ IsFenced) =>
           /\ ~Contains(msg, FENCE)
           /\ FirstLine(msg) = ClipSubject(InteriorSubject)
           /\ Len(InteriorSubject) <= 72 => FirstLine(msg) = InteriorSubject
    /\ (committed /\ first_success.text = TxtFenced) =>
           commit_args = git_args \o <<<<"-","m">>, <<"F","i","x"," ","b","u","g">>, <<"-","m">>, <<"-"," ","c","o","r","r","e","c","t","e","d"," ","o","f","f","-","b","y","-","o","n","e">>>>

\* ---- the spinner ----

\* main is inside a provider attempt: between spinner.start() and the return
\* of spinner.stop()
InAttempt == pc \in {"call", "wait", "call2", "sleep", "stop", "join"}

\* stop() has been requested of a spinner whose thread has not ended
StopRequested == spinner_thread = "alive" /\ ~spinner_running

\* C19: outside a provider attempt (at the next entry of the order, at
\* normalization, at git commit, at the end) running is false and no spinner
\* thread is alive: a thread that was started has ended and been joined,
\* whether the attempt returned a text or raised. Once stop is requested the
\* spinner loop ends, and stop() returns to the loop of main.
C19_SpinnerTornDown ==
    /\ [](~InAttempt =>
            /\ ~spinner_running
            /\ spinner_thread \in {"none", "joined"}
            /\ (WrapperLeft /\ ~DEBUG) => spinner_thread = "joined")
    /\ [](pc = "join" => ~spinner_running)
    /\ StopRequested ~> (spinner_thread \in {"dead", "joined"})
    /\ (pc = "stop") ~> (pc = "loop")

\* the attempt for an entry that is not the last has raised, its spinner thread
\* has been joined, and main is back at the loop
C19_Witness ==
    /\ pc = "loop" /\ idx <= Len(PROVIDER_ORDER)
    /\ WrapperLeft /\ fate[Cur] = "raised"
    /\ ~spinner_running /\ spinner_thread = "joined"

\* ---- the model override ----

\* the requests of the last client invocation went to hosted API A
SentToOpenAI == Cur # 0 /\ PROVIDER_ORDER[Cur] = OPENAI /\ requests # <<>>

\* C20: with a model override for hosted API A on the command line, the first
\* request of its client names the override as its model, and carries a
\* temperature exactly when the override is not a reasoning model.
C20_OverrideSent ==
    (SentToOpenAI /\ opts.openai_model # None) =>
        /\ requests[1].model = opts.openai_model
        /\ requests[1].temperature = ~IsReasoningModel(opts.openai_model)

\* ---- an empty message ----

\* the loop of main was run to its end and no client raised: every client
\* that was invoked returned a text, and every text was blank
OnlyBlankTexts ==
    /\ PipelineOver
    /\ first_success.pos = 0
    /\ \E i \in Positions : fate[i] = "returned"
    /\ \A i \in Positions : fate[i] \in {"returned", "skipped"}

\* C21: a text of which normalization leaves nothing ends main with the line
\* "failed to generate a commit message." and exit code 3, and git commit is
\* not run; when every invoked provider returned a blank text main ends with
\* exit code 3 and an error line as well, and git commit is not run.
C21_EmptyMessageFails ==
    /\ (first_success.pos # 0 /\ Strip(StripSet(first_success.text, {"\"", "'"})) = <<>>) =>
           /\ ~committed /\ commit_args = <<>>
           /\ pc \notin {"review", "commit"}
           /\ pc = "done" =>
                 /\ exit_code = 3
                 /\ LastLine = <<"L","L","M","C","o","m","m","i","t",":"," ","f","a","i","l","e","d"," ","t","o"," ","g","e","n","e","r","a","t","e"," ","a"," ","c","o","m","m","i","t"," ","m","e","s","s","a","g","e",".">>
    /\ OnlyBlankTexts =>
           /\ ~committed /\ commit_args = <<>>
           /\ pc \in {"after", "done"}
           /\ pc = "done" =>
                 /\ exit_code = 3
                 /\ StartsWith(LastLine, <<"L","L","M","C","o","m","m","i","t",":"," ","A","l","l"," ","p","r","o","v","i","d","e","r","s"," ","f","a","i","l","e","d",".">>)

\* the text of two quote characters was returned and main has ended
C21_Witness ==
    /\ pc = "done" /\ exit_code = 3 /\ ~committed
    /\ first_success.text = TxtQuotes
    /\ LastLine = <<"L","L","M","C","o","m","m","i","t",":"," ","f","a","i","l","e","d"," ","t","o"," ","g","e","n","e","r","a","t","e"," ","a"," ","c","o","m","m","i","t"," ","m","e","s","s","a","g","e",".">>

\* ---- timeouts ----

\* C22: a request that times out is retried like a network error: the wrapper
\* is left with a timeout only after 3 invocations, with sleeps of 1 s and
\* 2 s between them.
C22_TimeoutRetried ==
    (WrapperLeft /\ last_exc.cls = "TimeoutError") =>
        /\ calls[Cur] = 3
        /\ sleeps = <<1, 2>>
        /\ fate[Cur] = "raised"

\* ---- the request repeated without temperature ----

\* the first answer is an HTTP 400 that blames the temperature
TemperatureRejected(reply) == reply.kind = "http" /\ reply.code = 400 /\ reply.temp_msg

\* a line on stderr says that the request is repeated without temperature
TemperatureLinePrinted ==
    \E k \in 1..Len(stderr) :
        stderr[k] = <<"L","L","M","C","o","m","m","i","t",":"," ","M","o","d","e","l"," ">> \o OPENAI_MODEL
                        \o <<" ","d","o","e","s"," ","n","o","t"," ","s","u","p","p","o","r","t"," ","t","e","m","p","e","r","a","t","u","r","e",","," ","r","e","t","r","y","i","n","g"," ","w","i","t","h","o","u","t"," ","i","t",".">>

\* C23: one invocation of the hosted API A client sends at most two requests.
\* It sends a second one exactly when the first carried a temperature and was
\* answered by an HTTP 400 that blames the temperature; the second is the first
\* without the temperature; its text, when it has one, is what the call
\* returns, and otherwise the call raises the error of the first answer.
C23_RepeatedOnceWithoutTemperature ==
    /\ SentToOpenAI =>
          /\ Len(requests) <= 2
          /\ Len(requests) = 2 =>
                /\ requests[1].temperature /\ ~requests[2].temperature
                /\ requests[2].model = requests[1].model
                /\ \/ pc = "call2"
                   \/ last_exc = NoExc /\ last_text # <<>>
                   \/ last_exc.cls = "RuntimeError" /\ last_exc.what = <<"O","p","e","n","A","I"," ","H","T","T","P">>
                /\ TemperatureLinePrinted
    /\ (pc = "call" /\ attempt = 0 /\ PROVIDER_ORDER[idx] = OPENAI) =>
          \A reply \in Replies, reply2 \in Replies :
              LET res == ClientResult(OPENAI, reply, reply2)
                  first == res.requests[1]
              IN  IF TemperatureRejected(reply) /\ first.temperature
                  THEN /\ res.requests = <<first, [first EXCEPT !.temperature = FALSE]>>
                       /\ IF reply2.kind = "ok" /\ Strip(FirstTextOrEmpty(reply2.texts)) # <<>>
                          THEN /\ res.exc = NoExc
                               /\ res.text = Strip(FirstTextOrEmpty(reply2.texts))
                          ELSE /\ res.exc.cls = "RuntimeError"
                               /\ res.exc.what = <<"O","p","e","n","A","I"," ","H","T","T","P">>
                  ELSE res.requests = <<first>>

\* the request was repeated without temperature and its text returned
C23_Witness ==
    /\ SentToOpenAI /\ WrapperLeft
    /\ Len(requests) = 2
    /\ requests[1].temperature /\ ~requests[2].temperature
    /\ last_exc = NoExc /\ last_text = TxtFix /\ msg = TxtFix
    /\ calls[Cur] = 1

\* ---- an empty answer of the local server ----

\* position i is the local server's, and its client returned a blank text
ReturnedNothing(i) ==
    /\ PROVIDER_ORDER[i] = OLLAMA
    /\ fate[i] = "returned"
    /\ first_success.pos # i

\* C24: an answer of the local server whose content is empty or missing makes
\* its client return the empty text, with no exception, and the wrapper
\* returns it with no further invocation (the only invocations before it are
\* those that failed and were followed by a sleep); main takes it for no
\* result: the message stays
\* empty, the loop does not end there, and the next entry of the order is
\* dealt with.
C24_EmptyContentGoesOn ==
    /\ (pc = "call" /\ attempt = 0 /\ PROVIDER_ORDER[idx] = OLLAMA) =>
          \A reply \in Replies :
              (\/ reply.kind = "empty"
               \/ reply.kind = "ok" /\ (reply.texts = <<>> \/ reply.texts[1] = <<>>)) =>
                  LET res == ClientResult(OLLAMA, reply, reply)
                  IN  /\ res.exc = NoExc /\ res.text = <<>>
                      /\ WrapperStep(res, attempt).kind = "return"
    /\ \A i \in Positions :
          ReturnedNothing(i) =>
              /\ calls[i] \in 1..3
              /\ (Cur = i /\ WrapperLeft) =>
                     /\ last_exc = NoExc /\ ~NonBlank(last_text)
                     /\ calls[i] = Len(sleeps) + 1 /\ ~NonBlank(msg)
              /\ (PipelineOver /\ i < Len(PROVIDER_ORDER)) => fate[i + 1] # "none"

\* order [local, A]: the local server answered with nothing and A returned
\* the message
C24_Witness ==
    /\ PROVIDER_ORDER = <<OLLAMA, OPENAI>>
    /\ ReturnedNothing(1) /\ calls[1] = 1
    /\ first_success.pos = 2 /\ msg = TxtFix
    /\ pc = "after"

\* ---- the text parts of hosted API B ----

\* p1 + ... + pn
RECURSIVE ConcatAll(_)
ConcatAll(parts) == IF parts = <<>> THEN <<>> ELSE parts[1] \o ConcatAll(Tail(parts))

\* C25: for an answer whose output carries text parts p1..pn, with some text
\* in them, the client of hosted API B returns p1 + ... + pn, trimmed.
C25_AllPartsReturned ==
    (pc = "call" /\ attempt = 0 /\ PROVIDER_ORDER[idx] = GEMINI) =>
        \A reply \in Replies :
            (reply.kind = "ok" /\ NonBlank(ConcatAll(reply.texts))) =>
                LET res == ClientResult(GEMINI, reply, reply)
                IN  res.exc = NoExc /\ res.text = Strip(ConcatAll(reply.texts))

\* ---- the scope of the queries ----

\* the arguments ask for the working tree
WorktreeRequested == \E k \in 1..Len(git_args) : git_args[k] \in {<<"-","a">>, <<"-","-","a","l","l">>, <<"-","-","i","n","c","l","u","d","e">>}

\* "--" and what follows it in the arguments, nothing when nothing follows
PathRestriction ==
    LET at == {k \in 1..Len(git_args) : git_args[k] = <<"-","-">>}
    IN  IF at = {} \/ MinOf(at) = Len(git_args) THEN <<>>
        ELSE Slice(git_args, MinOf(at), Len(git_args))

\* C26: the name-status query and the diff query are made against HEAD exactly
\* when a commit exists and the arguments hold -a, --all or --include, and
\* against the index (--cached) otherwise, whatever the arguments ask for
\* when no commit exists; both end with "--" and exactly the tokens that
\* follow it in the arguments, when there are any. (The diff query is not
\* made when the name-status query fails.)
C26_ScopeSelection ==
    ContextAttempted =>
        LET head == repo.has_head /\ WorktreeRequested
        IN  /\ ns_cmd = (IF head THEN <<<<"d","i","f","f">>, <<"-","-","n","a","m","e","-","s","t","a","t","u","s">>, <<"H","E","A","D">>>>
                         ELSE <<<<"d","i","f","f">>, <<"-","-","c","a","c","h","e","d">>, <<"-","-","n","a","m","e","-","s","t","a","t","u","s">>>>) \o PathRestriction
            /\ diff_cmd = <<>> <=> repo.fails = "name-status"
            /\ diff_cmd # <<>> =>
                  diff_cmd = (IF head THEN <<<<"d","i","f","f">>, <<"-","-","n","o","-","c","o","l","o","r">>, <<"H","E","A","D">>>>
                              ELSE <<<<"d","i","f","f">>, <<"-","-","c","a","c","h","e","d">>, <<"-","-","n","o","-","c","o","l","o","r">>>>) \o PathRestriction

\* no commit exists, --all and two paths are given: the index is queried for
\* the two paths
C26_Witness ==
    /\ ContextAttempted /\ ~repo.has_head
    /\ git_args = <<<<"-","-","a","l","l">>, <<"-","-">>, <<"f">>, <<"g">>>>
    /\ ns_cmd = <<<<"d","i","f","f">>, <<"-","-","c","a","c","h","e","d">>, <<"-","-","n","a","m","e","-","s","t","a","t","u","s">>, <<"-","-">>, <<"f">>, <<"g">>>>
    /\ diff_cmd = <<<<"d","i","f","f">>, <<"-","-","c","a","c","h","e","d">>, <<"-","-","n","o","-","c","o","l","o","r">>, <<"-","-">>, <<"f">>, <<"g">>>>

\* ---- the arguments of git commit ----

\* the tool's own options: those that stand alone, and those followed by a value
OwnFlags == {<<"-","-","a","d","d","a","l","l">>, <<"-","-","p","u","s","h">>, <<"-","-","c","o","n","v","e","n","t","i","o","n","a","l">>, <<"-","-","r","e","v","i","e","w">>}

OwnValued == {<<"-","-","l","a","n","g">>, <<"-","-","m","o","d","e","l">>, <<"-","-","o","l","l","a","m","a","-","m","o","d","e","l">>, <<"-","-","o","p","e","n","a","i","-","m","o","d","e","l">>}

\* the command line without the tool's own options and their values
RECURSIVE PassThrough(_)
PassThrough(args) ==
    IF args = <<>> THEN <<>>
    ELSE IF args[1] \in OwnValued THEN PassThrough(Slice(args, 3, Len(args)))
    ELSE IF args[1] \in OwnFlags THEN PassThrough(Tail(args))
    ELSE <<args[1]>> \o PassThrough(Tail(args))

\* git commit was run with a generated message
CommittedGenerated == committed /\ first_success.pos # 0

\* C27: git commit gets the pass-through arguments, every one in its place and
\* unchanged, followed by the message tokens and nothing else: -m and the
\* subject, then -m and the body when the message has more than one line.
\* A commit without a generated message gets the pass-through arguments alone.
C27_MessageTokensAppended ==
    /\ CommittedGenerated =>
          LET n == Len(PassThrough(argv))
              tail == Slice(commit_args, n + 1, Len(commit_args))
          IN  /\ Len(commit_args) \in {n + 2, n + 4}
              /\ Slice(commit_args, 1, n) = PassThrough(argv)
              /\ tail[1] = <<"-","m">> /\ tail[2] = FirstLine(msg)
              /\ Len(tail) = 4 <=> Len(msg) > Len(FirstLine(msg))
              /\ Len(tail) = 4 =>
                    /\ tail[3] = <<"-","m">>
                    /\ EndsWith(msg, tail[4])
    /\ (committed /\ first_success.pos = 0) => commit_args = PassThrough(argv)

\* --amend was given with a model override: git commit gets --amend and the
\* message
C27_Witness ==
    /\ CommittedGenerated
    /\ argv = <<<<"-","-","a","m","e","n","d">>, <<"-","-","o","p","e","n","a","i","-","m","o","d","e","l">>, <<"o","3">>>>
    /\ commit_args = <<<<"-","-","a","m","e","n","d">>, <<"-","m">>, <<"F","i","x"," ","b","u","g">>, <<"-","m">>, <<"-"," ","c","o","r","r","e","c","t","e","d"," ","o","f","f","-","b","y","-","o","n","e">>>>

\* C28: a normalized message that is not empty has a first line that is not
\* empty, and git commit is never given an empty subject: a text whose first
\* line the clip reduces to nothing ends the run as a normalization failure.
C28_SubjectNotEmpty ==
    /\ Normalized => FirstLine(msg) # <<>>
    /\ CommittedGenerated => commit_args[Len(git_args) + 2] # <<>>
    /\ (PipelineOver /\ first_success.pos # 0 /\ pc = "done"
            /\ Unwrapped /\ ClipSubject(Strip(RawSubject)) = <<>>) =>
          ~committed /\ exit_code = 3

\* C29: in the arguments of git commit no pass-through -- separator stands
\* before the generated message tokens, so that git reads them as options.
C29_MessageBeforeSeparator ==
    CommittedGenerated =>
        \A k \in 1..Len(commit_args), j \in 1..Len(commit_args) :
            (commit_args[k] = <<"-","-">> /\ j > Len(git_args)) => j < k

\* ---- bounded work ----

RECURSIVE TotalOf(_)
TotalOf(counts) == IF counts = <<>> THEN 0 ELSE counts[1] + TotalOf(Tail(counts))

\* main has left the for loop with a message or with every entry used up
MessageOrExhaustion ==
    /\ pc = "after"
    /\ NonBlank(msg) \/ idx = Len(PROVIDER_ORDER) + 1

\* C30: the pipeline ends after bounded work. The client of an entry of the
\* order is invoked at most MAX_RETRIES (3) times; the attempt counter is zero
\* when the wrapper is entered for an entry, whatever the entry before did, and
\* counts that entry's invocations alone; the invocations of a run number at
\* most 3 times the length of the order; and main, once it has the context,
\* leaves the loop with a message or with the order exhausted.
C30_BoundedWork ==
    /\ [](\A i \in Positions : calls[i] <= MAX_RETRIES)
    /\ [][Enter => attempt' = 0 /\ calls[idx] = 0]_vars
    /\ [](pc = "call" => attempt = calls[idx] /\ attempt < MAX_RETRIES)
    /\ [](TotalOf(calls) <= MAX_RETRIES * Len(PROVIDER_ORDER))
    /\ (pc = "loop") ~> MessageOrExhaustion

\* an order of three entries, each invoked three times, has been exhausted
C30_Witness ==
    /\ MessageOrExhaustion
    /\ Len(PROVIDER_ORDER) = 3
    /\ calls = <<3, 3, 3>>
    /\ ~NonBlank(msg)

\* ---- redaction and the length cap ----

\* what the redaction rules match in the diffs git answers: a private-key
\* block, and two quoted assignments
KeyBlock == <<"-","-","-","-","-","B","E","G","I","N"," ","R","S","A"," ","P","R","I","V","A","T","E"," ","K","E","Y","-","-","-","-","-","\n","+","M","I","I","E","p","A","\n","+","-","-","-","-","-","E","N","D"," ","R","S","A"," ","P","R","I","V","A","T","E"," ","K","E","Y","-","-","-","-","-">>

MatchedSecrets == {KeyBlock, <<"t","o","k","e","n"," ","="," ","\"","h","u","n","t","e","r","2","2","\"">>, <<"t","o","k","e","n","=","\n"," ","\"","h","u","n","t","e","r","\"">>}

\* the secret s stands at offset p of the raw diff
SecretAt(p, s) ==
    /\ p + Len(s) - 1 <= Len(RawDiff)
    /\ Slice(RawDiff, p, p + Len(s) - 1) = s

\* the secret s at offset p of the raw diff begins before the cap position and
\* ends after it
StraddlesCap(p, s) == SecretAt(p, s) /\ p <= MaxChars /\ p + Len(s) - 1 > MaxChars

\* the diff section of the context without the truncation marker
SectionBody ==
    IF EndsWith(ctx.diff, <<"\n","\n","[","D","I","F","F"," ","T","R","U","N","C","A","T","E","D","]">>)
    THEN Slice(ctx.diff, 1, Len(ctx.diff) - Len(<<"\n","\n","[","D","I","F","F"," ","T","R","U","N","C","A","T","E","D","]">>))
    ELSE ctx.diff

\* C31: the diff is redacted as a whole and cut afterwards. What the context
\* holds of the diff is a prefix of the redacted diff, of MaxChars characters
\* when the redacted diff is longer than that; and of a secret that a rule
\* matches in the raw diff across the cap position, neither the whole nor the
\* part that lies before the cap occurs in the context.
C31_RedactedBeforeCap ==
    (ContextJustBuilt /\ ctx.ok) =>
        /\ StartsWith(RedactedDiff, SectionBody)
        /\ Len(RedactedDiff) > MaxChars => Len(SectionBody) = MaxChars
        /\ \A s \in MatchedSecrets : \A p \in 1..Len(RawDiff) :
              StraddlesCap(p, s) =>
                  /\ ~Contains(ctx.text, s)
                  /\ ~Contains(ctx.text, Slice(RawDiff, p, MaxChars))

\* the context of a diff whose private-key block begins before the cap position
\* and ends after it has been built: the block is redacted whole
C31_Witness ==
    /\ ContextJustBuilt /\ ctx.ok
    /\ StraddlesCap(7, KeyBlock)
    /\ ctx.diff = <<"d","i","f","f","\n","+","[","R","E","D","A","C","T","E","D","]">>
====
